---------------------------- MODULE Spec2Model ----------------------------
(***************************************************************************)
(* A model of the agent orchestration engine of microclaw:                 *)
(*   - the run registry (src/src/run_control.rs),                          *)
(*   - the agent loop and session resume (src/src/channels/telegram.rs),   *)
(*   - the channel entry points that call the loop (telegram.rs,           *)
(*     discord.rs, web.rs, scheduler.rs).                                  *)
(* These specifications share the module:                                  *)
(*   SpecRC      concurrent callers of the run registry,                   *)
(*   SpecLoop    one channel handler at a time, every answer of the LLM,   *)
(*   Spec        concurrent channel handlers running turns on one chat,    *)
(*   SpecCancel  one turn with a registered run and a concurrent abort,    *)
(*   SpecBuild   the message list of a turn over any history and session,  *)
(*   SpecStream  one streaming web run, its event sink and one client,     *)
(*   SpecSink    the events one streaming turn sends, over every answer,   *)
(*   SpecFn      the pure functions, one argument at a time,               *)
(*   SpecGuard   concurrent callers of the duplicate-message guard,        *)
(*   SpecTool    one call of the send_message tool,                        *)
(*   SpecSched   the scheduler loop over two tasks, with failing calls,    *)
(*   SpecWake    the run registry with tasks waiting on a run's Notify,    *)
(*   SpecWeb     two web requests and the session-key mutexes;             *)
(* SpecLoopLive, SpecStreamLive, SpecSchedLive and SpecWebLive add the     *)
(* fairness of the running tasks.                                          *)
(***************************************************************************)
EXTENDS Integers, Sequences, FiniteSets, TLC

(***************************************************************************)
(* Bounds of the model.                                                    *)
(***************************************************************************)
\* run ids handed out before register_run is no longer called
MaxRuns == 2

\* handler invocations (inbound messages and due tasks) of a behaviour
MaxHandlers == 2
\* the values of config.max_tool_iterations
ToolIterationChoices == {0, 1, 2}

\* requests to the LLM client in a behaviour
MaxLlmRequests == 3
\* config.max_session_messages, config.compact_keep_recent, config.max_history_messages
MaxSessionMessages == 2
CompactKeepRecent == 1
MaxHistoryMessages == 2
\* the rows of a chat's stored history when resume_or_build is examined on its own
MaxStored == 3

\* NEXT_RUN_ID starts at 1 (AtomicU64::new(1))
FirstRunId == 1

None == "None"

\* (channel, chat_id) keys of the registry
Keys == {"k1", "k2"}
\* inbound message ids a run may carry
SourceIds == {"u1", "u2"}
\* the concurrent tasks calling the run registry
Tasks == {"t1", "t2"}

VARIABLES
    NEXT_RUN_ID,                  \* static NEXT_RUN_ID
    ACTIVE_RUNS,                  \* HashMap<RunKey, Vec<ActiveRun>>: a function on the present keys
    ABORTED_SOURCE_MESSAGE_IDS,   \* HashMap<RunKey, HashSet<String>>
    cancelled,                    \* the Arc<AtomicBool> of every run, by run id
    task,                         \* per task: the position in the call it makes, and its locals
    config,                       \* AppState.config: the fields the engine reads
    chat,                         \* the routing of the one chat the handlers serve
    clock,                        \* chrono::Utc::now(), as a counter
    db_messages,                  \* the messages table rows of the chat, in insertion order
    session,                      \* the sessions table row of the chat, if it exists
    session_lock,                 \* web SessionHub: the holder of the chat's session-key mutex
    started,                      \* handler invocations so far
    llm_requests,                 \* requests the LLM client has received so far
    h,                            \* per handler task: its position and its locals
    outbox,                       \* the messages the handlers sent to the chat, in order
    evt_tx,                       \* the AgentEvents sent on the streaming run's event sink
    forwarded,                    \* how many of them the run's forward task has received
    run_state,                    \* RunHub: the streaming run's broadcast channel, if any
    run_events,                   \* the RunEvents sent on that broadcast channel, in order
    client                        \* the client of GET /api/stream for that run

VARIABLES
    scheduled_tasks,              \* the scheduled_tasks table, by task id
    task_run_logs,                \* the task_run_logs table, in insertion order
    sched,                        \* the scheduler task: its position in run_due_tasks and its locals
    sched_calls,                  \* the calls run_due_tasks has made, in order, with what they returned
    CHANNEL_RECENT_MESSAGE_IDS,   \* HashMap<String, HashMap<String, i64>> behind its Mutex
    guard_task,                   \* per caller of the duplicate guard: its position and its locals
    guard_returns,                \* the returns of should_drop_recent_duplicate_message, in lock order
    chats,                        \* the chats table: the chat_type of every known chat
    chat_messages,                \* the messages table over all chats, in insertion order
    telegram_sent,                \* the messages handed to bot.send_message, in order
    tool,                         \* the send_message call: its input, its position and its result
    arg,                          \* the argument of the pure function under examination
    ret,                          \* what the function returned for it, once applied
    locks,                        \* web SessionHub.locks: the mutex of every session key seen
    web                           \* per web request task: its position and its locals

\* the variables outside the run registry and the agent loop
schedvars == <<scheduled_tasks, task_run_logs, sched, sched_calls>>
guardvars == <<CHANNEL_RECENT_MESSAGE_IDS, guard_task, guard_returns>>
toolvars == <<chats, chat_messages, telegram_sent, tool>>
fnvars == <<arg, ret>>
webvars == <<locks, web>>
auxvars == <<schedvars, guardvars, toolvars, fnvars, webvars>>

rcvars == <<NEXT_RUN_ID, ACTIVE_RUNS, ABORTED_SOURCE_MESSAGE_IDS, cancelled, task>>

\* the variables of the deliveries and of the streaming run
iovars == <<outbox, evt_tx, forwarded, run_state, run_events, client>>

\* those of them the agent loop does not write
rxvars == <<outbox, forwarded, run_state, run_events, client>>

\* the agent loop's variables, as the registry leaves them alone
corevars == <<config, chat, clock, db_messages, session, session_lock, started, llm_requests, h,
             outbox, evt_tx, forwarded, run_state, run_events, client>>

agvars == <<corevars, auxvars>>

vars == <<NEXT_RUN_ID, ACTIVE_RUNS, ABORTED_SOURCE_MESSAGE_IDS, cancelled, task,
          config, chat, clock, db_messages, session, session_lock, started, llm_requests, h,
          outbox, evt_tx, forwarded, run_state, run_events, client, auxvars>>

\* no scheduler, no duplicate guard, no tool call and no function under examination
SchedOff ==
    /\ scheduled_tasks = << >>
    /\ task_run_logs = <<>>
    /\ sched = [pc |-> "off"]
    /\ sched_calls = <<>>

GuardOff ==
    /\ CHANNEL_RECENT_MESSAGE_IDS = << >>
    /\ guard_task = << >>
    /\ guard_returns = <<>>

ToolOff ==
    /\ chats = << >>
    /\ chat_messages = <<>>
    /\ telegram_sent = <<>>
    /\ tool = [pc |-> "off"]

\* no argument, and an Option of the returned value that is still empty
NoArg == [fn |-> "none"]
NoRet == <<>>
Some(v) == <<v>>

FnOff ==
    /\ arg = NoArg
    /\ ret = NoRet

\* no web request
WebOff ==
    /\ locks = << >>
    /\ web = << >>

AuxOff == SchedOff /\ GuardOff /\ ToolOff /\ FnOff /\ WebOff

(***************************************************************************)
(* Run registry: src/src/run_control.rs                                    *)
(***************************************************************************)
ActiveRun(run_id, source_message_id) ==
    [run_id |-> run_id, source_message_id |-> source_message_id]

\* map.get(&key) on a HashMap<RunKey, Vec<_>>, with the empty vector for an absent key
RunsOf(map, key) == IF key \in DOMAIN map THEN map[key] ELSE <<>>

\* guard.get(&key) on a HashMap<RunKey, HashSet<_>>, with the empty set for an absent key
IdsOf(map, key) == IF key \in DOMAIN map THEN map[key] ELSE {}

\* map.remove(&key)
MapRemove(map, key) == [k \in (DOMAIN map) \ {key} |-> map[k]]

\* map.insert(key, v) / the effect of entry(key).or_default() followed by a write
MapPut(map, key, v) == [k \in (DOMAIN map) \cup {key} |-> IF k = key THEN v ELSE map[k]]

\* runs.retain(|r| r.run_id != run_id)
Retain(runs, run_id) == SelectSeq(runs, LAMBDA r : r.run_id # run_id)

\* runs.iter().filter_map(|r| r.source_message_id.clone()).collect()
FilterSourceIds(runs) ==
    LET some == SelectSeq(runs, LAMBDA r : r.source_message_id # None)
    IN  [i \in 1..Len(some) |-> some[i].source_message_id]

SeqRange(s) == {s[i] : i \in 1..Len(s)}

Idle == [pc |-> "idle", key |-> None, run_id |-> 0, source_message_id |-> None,
         runs |-> <<>>, ids |-> <<>>, count |-> 0, i |-> 0, observed |-> FALSE]

InitRC ==
    /\ NEXT_RUN_ID = FirstRunId
    /\ ACTIVE_RUNS = << >>
    /\ ABORTED_SOURCE_MESSAGE_IDS = << >>
    /\ cancelled = [r \in FirstRunId..(FirstRunId + MaxRuns) |-> FALSE]
    /\ task = [t \in Tasks |-> Idle]

\* register_run with a mutation: the id is read without the add
RegisterAlloc_NoAdd(t) ==
    /\ task[t].pc = "idle"
    /\ NEXT_RUN_ID < FirstRunId + MaxRuns
    /\ \E key \in Keys, sid \in SourceIds \cup {None} :
          task' = [task EXCEPT ![t] = [Idle EXCEPT !.pc = "reg_push", !.key = key,
                                       !.run_id = NEXT_RUN_ID, !.source_message_id = sid]]
    /\ cancelled' = [cancelled EXCEPT ![NEXT_RUN_ID] = FALSE]
    /\ UNCHANGED <<NEXT_RUN_ID, ACTIVE_RUNS, ABORTED_SOURCE_MESSAGE_IDS, agvars>>

\* register_run, lines 30-38: fetch_add on NEXT_RUN_ID, a fresh flag, before the lock
RegisterAlloc(t) ==
    /\ task[t].pc = "idle"
    /\ NEXT_RUN_ID < FirstRunId + MaxRuns
    /\ \E key \in Keys, sid \in SourceIds \cup {None} :
          task' = [task EXCEPT ![t] = [Idle EXCEPT !.pc = "reg_push", !.key = key,
                                       !.run_id = NEXT_RUN_ID, !.source_message_id = sid]]
    /\ NEXT_RUN_ID' = NEXT_RUN_ID + 1
    /\ cancelled' = [cancelled EXCEPT ![NEXT_RUN_ID] = FALSE]
    /\ UNCHANGED <<ACTIVE_RUNS, ABORTED_SOURCE_MESSAGE_IDS, agvars>>

\* register_run, lines 39-43: under the ACTIVE_RUNS lock, entry(key).or_default().push(run)
RegisterPush(t) ==
    /\ task[t].pc = "reg_push"
    /\ ACTIVE_RUNS' = MapPut(ACTIVE_RUNS, task[t].key,
                             Append(RunsOf(ACTIVE_RUNS, task[t].key),
                                    ActiveRun(task[t].run_id, task[t].source_message_id)))
    /\ task' = [task EXCEPT ![t] = Idle]
    /\ UNCHANGED <<NEXT_RUN_ID, ABORTED_SOURCE_MESSAGE_IDS, cancelled, agvars>>

\* unregister_run with a mutation: the key stays in the map with an empty vector
unregister_run_KeepKey(t) ==
    /\ task[t].pc = "idle"
    /\ \E key \in Keys, run_id \in FirstRunId..(NEXT_RUN_ID - 1) :
          ACTIVE_RUNS' =
             IF key \in DOMAIN ACTIVE_RUNS
             THEN MapPut(ACTIVE_RUNS, key, Retain(ACTIVE_RUNS[key], run_id))
             ELSE ACTIVE_RUNS
    /\ task' = [task EXCEPT ![t] = Idle]
    /\ UNCHANGED <<NEXT_RUN_ID, ABORTED_SOURCE_MESSAGE_IDS, cancelled, agvars>>

\* unregister_run: one critical section of the ACTIVE_RUNS lock
unregister_run(t) ==
    /\ task[t].pc = "idle"
    /\ \E key \in Keys, run_id \in FirstRunId..(NEXT_RUN_ID - 1) :
          ACTIVE_RUNS' =
             IF key \in DOMAIN ACTIVE_RUNS
             THEN LET runs == Retain(ACTIVE_RUNS[key], run_id)
                  IN  IF runs = <<>> THEN MapRemove(ACTIVE_RUNS, key)
                      ELSE MapPut(ACTIVE_RUNS, key, runs)
             ELSE ACTIVE_RUNS
    /\ task' = [task EXCEPT ![t] = Idle]
    /\ UNCHANGED <<NEXT_RUN_ID, ABORTED_SOURCE_MESSAGE_IDS, cancelled, agvars>>

\* abort_runs, lines 58-67: the ACTIVE_RUNS lock is held for map.remove(&key) only
AbortTake(t) ==
    /\ task[t].pc = "idle"
    /\ \E key \in Keys :
          LET runs == RunsOf(ACTIVE_RUNS, key)
          IN  /\ ACTIVE_RUNS' = MapRemove(ACTIVE_RUNS, key)
              /\ task' = [task EXCEPT ![t] = [Idle EXCEPT !.pc = "ab_flags", !.key = key,
                                              !.runs = runs, !.ids = FilterSourceIds(runs),
                                              !.count = Len(runs), !.i = 1]]
    /\ UNCHANGED <<NEXT_RUN_ID, ABORTED_SOURCE_MESSAGE_IDS, cancelled, agvars>>

\* abort_runs, line 69 with a mutation: the waiters are woken, the flag is not stored
AbortStore_WakeOnly(t) ==
    /\ task[t].pc = "ab_flags"
    /\ task[t].i <= Len(task[t].runs)
    /\ task' = [u \in Tasks |->
                  IF u = t THEN [task[t] EXCEPT !.pc = "ab_notify"]
                  ELSE IF task[u].pc = "waiting" /\ task[u].run_id = task[t].runs[task[t].i].run_id
                       THEN [task[u] EXCEPT !.pc = "woken"]
                       ELSE task[u]]
    /\ UNCHANGED <<NEXT_RUN_ID, ACTIVE_RUNS, ABORTED_SOURCE_MESSAGE_IDS, cancelled, agvars>>

\* abort_runs, line 69: run.cancelled.store(true) of one iteration of `for run in runs`,
\* no lock held
AbortStore(t) ==
    /\ task[t].pc = "ab_flags"
    /\ task[t].i <= Len(task[t].runs)
    /\ cancelled' = [cancelled EXCEPT ![task[t].runs[task[t].i].run_id] = TRUE]
    /\ task' = [task EXCEPT ![t].pc = "ab_notify"]
    /\ UNCHANGED <<NEXT_RUN_ID, ACTIVE_RUNS, ABORTED_SOURCE_MESSAGE_IDS, agvars>>

\* abort_runs, line 70: run.notify.notify_waiters() wakes every task that waits on the
\* run's Notify at that time; the iteration ends
AbortNotify(t) ==
    /\ task[t].pc = "ab_notify"
    /\ task' = [u \in Tasks |->
                  IF u = t THEN [task[t] EXCEPT !.pc = "ab_flags", !.i = @ + 1]
                  ELSE IF task[u].pc = "waiting" /\ task[u].run_id = task[t].runs[task[t].i].run_id
                       THEN [task[u] EXCEPT !.pc = "woken"]
                       ELSE task[u]]
    /\ UNCHANGED <<NEXT_RUN_ID, ACTIVE_RUNS, ABORTED_SOURCE_MESSAGE_IDS, cancelled, agvars>>

\* abort_runs, lines 72-78 with a mutation: the source ids are not recorded
AbortRecord_Skip(t) ==
    /\ task[t].pc = "ab_flags"
    /\ task[t].i > Len(task[t].runs)
    /\ task' = [task EXCEPT ![t].pc = "ab_ret"]
    /\ UNCHANGED <<NEXT_RUN_ID, ACTIVE_RUNS, ABORTED_SOURCE_MESSAGE_IDS, cancelled, agvars>>

\* abort_runs, lines 72-78 with a mutation: the ids replace those recorded before
AbortRecord_Replace(t) ==
    /\ task[t].pc = "ab_flags"
    /\ task[t].i > Len(task[t].runs)
    /\ ABORTED_SOURCE_MESSAGE_IDS' =
          IF task[t].ids # <<>>
          THEN MapPut(ABORTED_SOURCE_MESSAGE_IDS, task[t].key, SeqRange(task[t].ids))
          ELSE ABORTED_SOURCE_MESSAGE_IDS
    /\ task' = [task EXCEPT ![t].pc = "ab_ret"]
    /\ UNCHANGED <<NEXT_RUN_ID, ACTIVE_RUNS, cancelled, agvars>>

\* abort_runs, lines 72-78: under the ABORTED_SOURCE_MESSAGE_IDS lock, only when there are ids
AbortRecord(t) ==
    /\ task[t].pc = "ab_flags"
    /\ task[t].i > Len(task[t].runs)
    /\ ABORTED_SOURCE_MESSAGE_IDS' =
          IF task[t].ids # <<>>
          THEN MapPut(ABORTED_SOURCE_MESSAGE_IDS, task[t].key,
                      IdsOf(ABORTED_SOURCE_MESSAGE_IDS, task[t].key) \cup SeqRange(task[t].ids))
          ELSE ABORTED_SOURCE_MESSAGE_IDS
    /\ task' = [task EXCEPT ![t].pc = "ab_ret"]
    /\ UNCHANGED <<NEXT_RUN_ID, ACTIVE_RUNS, cancelled, agvars>>

\* abort_runs, line 79: return count
AbortReturn(t) ==
    /\ task[t].pc = "ab_ret"
    /\ task' = [task EXCEPT ![t] = Idle]
    /\ UNCHANGED <<NEXT_RUN_ID, ACTIVE_RUNS, ABORTED_SOURCE_MESSAGE_IDS, cancelled, agvars>>

\* is_cancelled(flag)
is_cancelled(run_id) == cancelled[run_id]

\* is_aborted_source_message(channel, chat_id, message_id)
is_aborted_source_message(key, message_id) ==
    IF key \in DOMAIN ABORTED_SOURCE_MESSAGE_IDS
    THEN message_id \in ABORTED_SOURCE_MESSAGE_IDS[key]
    ELSE FALSE

RCStep(t) ==
    \/ RegisterAlloc(t)
    \/ RegisterPush(t)
    \/ unregister_run(t)
    \/ AbortTake(t)
    \/ AbortStore(t)
    \/ AbortNotify(t)
    \/ AbortRecord(t)
    \/ AbortReturn(t)

NextRC == \E t \in Tasks : RCStep(t)

\* a holder of a run's handles (register_run's result) awaits notify.notified()
WaitBegin(t) ==
    /\ task[t].pc = "idle"
    /\ \E run_id \in FirstRunId..(NEXT_RUN_ID - 1) :
          task' = [task EXCEPT ![t] = [Idle EXCEPT !.pc = "waiting", !.run_id = run_id]]
    /\ UNCHANGED <<NEXT_RUN_ID, ACTIVE_RUNS, ABORTED_SOURCE_MESSAGE_IDS, cancelled, agvars>>

\* the woken waiter resumes and reads is_cancelled(&flag)
WaitResume(t) ==
    /\ task[t].pc = "woken"
    /\ task' = [task EXCEPT ![t].pc = "resumed", ![t].observed = is_cancelled(task[t].run_id)]
    /\ UNCHANGED <<NEXT_RUN_ID, ACTIVE_RUNS, ABORTED_SOURCE_MESSAGE_IDS, cancelled, agvars>>

\* the waiter goes on with what it read
WaitReturn(t) ==
    /\ task[t].pc = "resumed"
    /\ task' = [task EXCEPT ![t] = Idle]
    /\ UNCHANGED <<NEXT_RUN_ID, ACTIVE_RUNS, ABORTED_SOURCE_MESSAGE_IDS, cancelled, agvars>>

NextWake == \E t \in Tasks : RCStep(t) \/ WaitBegin(t) \/ WaitResume(t) \/ WaitReturn(t)


(***************************************************************************)
(* Messages and content blocks (crate::claude types as used by             *)
(* src/src/channels/telegram.rs).  A text is a sequence of tokens; pushing *)
(* '\n' and a text, and joining texts, are concatenations of sequences.    *)
(***************************************************************************)
Tok(k, v) == [k |-> k, v |-> v]

\* the content of the n-th inbound message
RawContent(n) == <<Tok("raw", n)>>

\* format_user_message(sender, content): the stored content, wrapped and escaped
format_user_message(content) == [i \in 1..Len(content) |-> Tok("user_message", content[i].v)]

SchedulerText == <<Tok("[scheduler]", 0)>>
ReplyText == <<Tok("reply", 0)>>
MaxIterText == <<Tok("max_iter_msg", 0)>>
NoResponseText == <<Tok("(no response)", 0)>>
NothingText == <<Tok("nothing to process", 0)>>
ImagePlaceholder == <<Tok("[image was sent]", 0)>>
ThinkOpen == Tok("<think>", 0)
ThinkClose == Tok("</think>", 0)
ThinkingReplyText == <<ThinkOpen, Tok("plan", 0), ThinkClose, Tok("reply", 0)>>

\* ContentBlock / ResponseContentBlock
TextBlock(text) == [t |-> "Text", text |-> text, id |-> 0, is_error |-> FALSE]
ImageBlock == [t |-> "Image", text |-> <<>>, id |-> 0, is_error |-> FALSE]
ToolUse(id) == [t |-> "ToolUse", text |-> <<>>, id |-> id, is_error |-> FALSE]
ToolResult(tool_use_id, is_error) ==
    [t |-> "ToolResult", text |-> <<>>, id |-> tool_use_id, is_error |-> is_error]

\* Message { role, content: MessageContent::Text | MessageContent::Blocks }
TextMsg(role, text) == [role |-> role, type |-> "Text", text |-> text, blocks |-> <<>>]
BlocksMsg(role, blocks) == [role |-> role, type |-> "Blocks", text |-> <<>>, blocks |-> blocks]

Last(s) == s[Len(s)]
Front(s) == SubSeq(s, 1, Len(s) - 1)

RECURSIVE Flatten(_)
Flatten(ss) == IF ss = <<>> THEN <<>> ELSE Head(ss) \o Flatten(Tail(ss))

\* response.content.iter().filter_map(Text).collect().join("")
ResponseText(content) ==
    Flatten([i \in 1..Len(content) |->
                IF content[i].t = "Text" THEN content[i].text ELSE <<>>])

\* message_to_text: the text of a message, blocks rendered one per line
BlockText(b) ==
    CASE b.t = "Text" -> b.text
      [] b.t = "ToolUse" -> <<Tok("[tool_use]", b.id)>>
      [] b.t = "ToolResult" ->
            IF b.is_error THEN <<Tok("[tool_error]", b.id)>> ELSE <<Tok("[tool_result]", b.id)>>
      [] OTHER -> <<Tok("[image]", 0)>>

message_to_text(msg) ==
    IF msg.type = "Text" THEN msg.text
    ELSE Flatten([i \in 1..Len(msg.blocks) |-> BlockText(msg.blocks[i])])

\* strip_images_for_session with a mutation: only a leading Image block is replaced
strip_images_first_block(messages) ==
    [j \in 1..Len(messages) |->
        IF messages[j].type = "Blocks"
        THEN [messages[j] EXCEPT !.blocks =
                 [i \in 1..Len(@) |-> IF @[i].t = "Image" /\ i > 1
                                      THEN TextBlock(ImagePlaceholder)
                                      ELSE @[i]]]
        ELSE messages[j]]

\* strip_images_for_session: every Image block becomes the text '[image was sent]'
strip_images_for_session(messages) ==
    [j \in 1..Len(messages) |->
        IF messages[j].type = "Blocks"
        THEN [messages[j] EXCEPT !.blocks =
                 [i \in 1..Len(@) |-> IF @[i].t = "Image" THEN TextBlock(ImagePlaceholder)
                                      ELSE @[i]]]
        ELSE messages[j]]

\* strip_thinking: the text before each <think>, the rest after its </think>;
\* an unclosed <think> drops everything after it (tokens carry no blanks to trim)
RECURSIVE IndexOf(_, _, _)
IndexOf(text, tok, from) ==
    IF from > Len(text) THEN 0
    ELSE IF text[from] = tok THEN from ELSE IndexOf(text, tok, from + 1)

RECURSIVE strip_thinking(_)
strip_thinking(text) ==
    LET start == IndexOf(text, ThinkOpen, 1)
    IN  IF start = 0 THEN text
        ELSE LET end == IndexOf(text, ThinkClose, start)
             IN  IF end = 0 THEN SubSeq(text, 1, start - 1)
                 ELSE SubSeq(text, 1, start - 1)
                         \o strip_thinking(SubSeq(text, end + 1, Len(text)))

\* history_to_claude_messages, lines 860-885: one stored message folded into the list
HistoryPush(messages, msg) ==
    LET role == IF msg.is_from_bot THEN "assistant" ELSE "user"
        content == IF msg.is_from_bot THEN msg.content ELSE format_user_message(msg.content)
    IN  IF messages # <<>> /\ Last(messages).role = role
        THEN IF Last(messages).type = "Text"
             THEN [messages EXCEPT ![Len(messages)].text = @ \o content]
             ELSE messages
        ELSE Append(messages, TextMsg(role, content))

RECURSIVE HistoryFold(_, _)
HistoryFold(messages, history) ==
    IF history = <<>> THEN messages
    ELSE HistoryFold(HistoryPush(messages, Head(history)), Tail(history))

\* lines 894-897 with a mutation: the first message is removed whatever its role
DropLeading(messages) == IF messages # <<>> THEN Tail(messages) ELSE messages

RECURSIVE DropLeadingAssistant(_)
DropLeadingAssistant(messages) ==
    IF messages # <<>> /\ Head(messages).role = "assistant"
    THEN DropLeadingAssistant(Tail(messages))
    ELSE messages

\* history_to_claude_messages with a mutation: nothing is trimmed after the merge
history_untrimmed(history) == HistoryFold(<<>>, history)

\* history_to_claude_messages
history_to_claude_messages(history) ==
    LET merged == HistoryFold(<<>>, history)
        popped == IF merged # <<>> /\ Last(merged).role = "assistant"
                  THEN Front(merged) ELSE merged
    IN  DropLeadingAssistant(popped)

\* the merge with a mutation: every recent message is appended as it is
CompactPush_Append(compacted, msg) == Append(compacted, msg)

\* compact_messages, lines 1134-1147: one recent message appended, same roles merged
CompactPush(compacted, msg) ==
    IF compacted # <<>> /\ Last(compacted).role = msg.role
    THEN [compacted EXCEPT ![Len(compacted)] =
             TextMsg(@.role, message_to_text(@) \o message_to_text(msg))]
    ELSE Append(compacted, msg)

RECURSIVE CompactFold(_, _)
CompactFold(compacted, recent) ==
    IF recent = <<>> THEN compacted
    ELSE CompactFold(CompactPush(compacted, Head(recent)), Tail(recent))

SummaryText == <<Tok("[Conversation Summary]", 0)>>
AckText == <<Tok("Understood", 0)>>

\* the split of compact_messages with a mutation: the oldest messages are the ones kept
RecentMessages_Oldest(messages, keep_recent) ==
    IF Len(messages) <= keep_recent THEN messages ELSE SubSeq(messages, 1, keep_recent)

\* compact_messages: recent_messages = messages[total - keep_recent ..]
RecentMessages(messages, keep_recent) ==
    IF Len(messages) <= keep_recent THEN messages
    ELSE SubSeq(messages, Len(messages) - keep_recent + 1, Len(messages))

\* compact_messages, the result when the summarization call succeeded
compact_messages_ok(messages, keep_recent) ==
    IF Len(messages) <= keep_recent THEN messages
    ELSE LET compacted == CompactFold(<<TextMsg("user", SummaryText),
                                        TextMsg("assistant", AckText)>>,
                                      RecentMessages(messages, keep_recent))
         IN  IF compacted # <<>> /\ Last(compacted).role = "assistant"
             THEN Front(compacted) ELSE compacted

\* the fallback with a mutation: nothing is kept
compact_messages_err_Empty(messages, keep_recent) == <<>>

\* compact_messages, the result when the summarization call failed
compact_messages_err(messages, keep_recent) == RecentMessages(messages, keep_recent)


(***************************************************************************)
(* The store (crate::db, consumed through call_blocking).                  *)
(***************************************************************************)
StoredMessage(content, is_from_bot, timestamp) ==
    [content |-> content, is_from_bot |-> is_from_bot, timestamp |-> timestamp]

\* db.get_recent_messages(chat_id, n): the last n rows, oldest first
get_recent_messages(n) ==
    IF Len(db_messages) <= n THEN db_messages
    ELSE SubSeq(db_messages, Len(db_messages) - n + 1, Len(db_messages))

\* the position of the last bot row, 0 when there is none
RECURSIVE LastBotIndex(_)
LastBotIndex(n) ==
    IF n = 0 THEN 0
    ELSE IF db_messages[n].is_from_bot THEN n ELSE LastBotIndex(n - 1)

\* db.get_messages_since_last_bot_response(chat_id, max, fallback)
get_messages_since_last_bot_response(max, fallback) ==
    LET b == LastBotIndex(Len(db_messages))
    IN  IF b = 0 THEN get_recent_messages(fallback)
        ELSE LET since == SubSeq(db_messages, b, Len(db_messages))
             IN  IF Len(since) <= max THEN since
                 ELSE SubSeq(since, Len(since) - max + 1, Len(since))

\* db.get_new_user_messages_since(chat_id, ts): user rows with timestamp > ts
get_new_user_messages_since(ts) ==
    SelectSeq(db_messages, LAMBDA m : ~m.is_from_bot /\ m.timestamp > ts)

\* db.save_session(chat_id, json): the row is replaced, updated_at is now; the blob is
\* the serialization of the messages, which parses
SavedSession(messages) ==
    [exists |-> TRUE, parses |-> TRUE, messages |-> messages, updated_at |-> clock]

\* no row for the chat (also after db.delete_session)
NoSession == [exists |-> FALSE, parses |-> FALSE, messages |-> <<>>, updated_at |-> 0]

\* the parse with a mutation: what can be read of a damaged blob is kept
from_str_lenient(row) == row.messages

\* line 489, serde_json::from_str(&json).unwrap_or_default(): the messages of a blob that
\* parses, the empty list for one that does not
from_str(row) == IF row.parses THEN row.messages ELSE <<>>

(***************************************************************************)
(* Channel handlers and the agent loop.                                    *)
(***************************************************************************)
\* the concurrent handler tasks
Handlers == {"h1", "h2"}

IdleH == [pc |-> "idle", run_id |-> 0, kind |-> None, chat_type |-> None, respond |-> FALSE,
          override_prompt |-> FALSE, image_data |-> FALSE,
          updated_at |-> 0, messages |-> <<>>, iteration |-> 0,
          response |-> <<>>, i |-> 0, tool_results |-> <<>>,
          llm_calls |-> 0, summary_calls |-> 0, outcome |-> None, text |-> <<>>,
          stored |-> 0, during |-> FALSE, sink |-> FALSE, summary_failed |-> FALSE,
          stop_reason |-> None]
\* stop_reason: the stop reason of the response that ended the turn;
\* summary_failed: whether the summarization call of the turn's compaction failed;
\* stored: the position of the row the handler stored for its inbound message;
\* during: whether a turn of the chat was generating when that row was stored;
\* sink: whether the turn was given an event sink (event_tx is Some)

\* the positions of a turn between its read of the session and its write of it
Generating == {"history", "catchup", "compact", "loop", "llm", "tool"}

\* teloxide's dispatcher hands the updates of one chat to handle_message one at a time
TelegramBusy == \E q \in Handlers : h[q].kind = "telegram"

\* a channel handler or the scheduler picks up an inbound message or a due task;
\* run_id is the run registered for the turn, 0 when there is none
HandlerStartWith(p, run_id) ==
    /\ h[p].pc = "idle"
    /\ started < MaxHandlers
    /\ started' = started + 1
    /\ \E kind \in {chat.channel, "scheduler"}, respond \in BOOLEAN, image \in BOOLEAN :
          /\ kind = "telegram" => ~TelegramBusy
          /\ image => kind = "telegram"
          /\ ~respond => (kind \in {"telegram", "discord"} /\ chat.chat_type = "group")
          /\ h' = [h EXCEPT ![p] =
                     [IdleH EXCEPT !.pc = CASE kind = "web" -> "lock"
                                           [] kind = "scheduler" -> "load"
                                           [] OTHER -> "store",
                                   !.run_id = run_id,
                                   !.kind = kind,
                                   !.chat_type = IF kind = "web" THEN "private"
                                                 ELSE chat.chat_type,
                                   !.respond = respond,
                                   !.override_prompt = (kind = "scheduler"),
                                   !.image_data = image]]
    /\ UNCHANGED <<auxvars, config, chat, clock, db_messages, session, session_lock, llm_requests, rcvars, iovars>>

\* the handlers of src/: no run is registered for the turn
HandlerStart(p) == HandlerStartWith(p, 0)

\* the key of the chat in the run registry
ChatKey == "k1"

\* a handler whose adapter registered a run for the chat and hands it to the turn
HandlerStartRun(p) ==
    \E i \in 1..Len(RunsOf(ACTIVE_RUNS, ChatKey)) :
        HandlerStartWith(p, ACTIVE_RUNS[ChatKey][i].run_id)

\* RunEvent { event, data } of the web run's broadcast channel
RunEvent(event, text) == [event |-> event, text |-> text]

\* web.rs send_and_store_response / api_send_stream: lock.lock().await; the task of a
\* streaming run then broadcasts the status "running" (lines 406-410)
WebLock(p) ==
    /\ h[p].pc = "lock"
    /\ session_lock = None
    /\ session_lock' = p
    /\ h' = [h EXCEPT ![p].pc = "store"]
    /\ run_events' = IF h[p].sink THEN Append(run_events, RunEvent("status", <<>>))
                     ELSE run_events
    /\ UNCHANGED <<auxvars, config, chat, clock, db_messages, session, started, llm_requests, rcvars,
                   outbox, evt_tx, forwarded, run_state, client>>

\* the handler stores the inbound message, then decides whether to respond
StoreMessage(p) ==
    /\ h[p].pc = "store"
    /\ db_messages' = Append(db_messages,
                             StoredMessage(RawContent(Len(db_messages) + 1), FALSE, clock))
    /\ clock' = clock + 1
    /\ h' = [h EXCEPT ![p] =
               IF h[p].respond
               THEN [@ EXCEPT !.pc = "load", !.stored = Len(db_messages) + 1,
                              !.during = \E q \in Handlers : h[q].pc \in Generating]
               ELSE IdleH]
    /\ UNCHANGED <<auxvars, config, chat, session, session_lock, started, llm_requests, rcvars, iovars>>

\* lines 525-570 with a mutation: the empty list is not answered before the loop
Prepare_NoEmptyCheck(hp, loaded) ==
    LET m1 == IF hp.override_prompt THEN Append(loaded, TextMsg("user", SchedulerText))
              ELSE loaded
        m2 == IF hp.image_data /\ m1 # <<>> /\ Last(m1).role = "user"
              THEN LET text_content == IF Last(m1).type = "Text" THEN Last(m1).text ELSE <<>>
                   IN  [m1 EXCEPT ![Len(m1)] =
                          BlocksMsg("user", IF text_content # <<>>
                                            THEN <<ImageBlock, TextBlock(text_content)>>
                                            ELSE <<ImageBlock>>)]
              ELSE m1
    IN  IF Len(m2) > config.max_session_messages /\ Len(m2) > config.compact_keep_recent
        THEN [hp EXCEPT !.pc = "compact", !.messages = m2, !.summary_calls = @ + 1]
        ELSE [hp EXCEPT !.pc = "loop", !.messages = m2]

\* process_with_agent_with_events, lines 525-570: the local steps between the reads of
\* the store and the loop; the result is the handler's next position
Prepare(hp, loaded) ==
    LET m1 == IF hp.override_prompt THEN Append(loaded, TextMsg("user", SchedulerText))
              ELSE loaded
        m2 == IF hp.image_data /\ m1 # <<>> /\ Last(m1).role = "user"
              THEN LET text_content == IF Last(m1).type = "Text" THEN Last(m1).text ELSE <<>>
                   IN  [m1 EXCEPT ![Len(m1)] =
                          BlocksMsg("user", IF text_content # <<>>
                                            THEN <<ImageBlock, TextBlock(text_content)>>
                                            ELSE <<ImageBlock>>)]
              ELSE m1
    IN  IF m2 = <<>>
        THEN [hp EXCEPT !.pc = "ret", !.messages = m2, !.outcome = "Empty",
                        !.text = NothingText]
        ELSE IF Len(m2) > config.max_session_messages /\ Len(m2) > config.compact_keep_recent
        THEN [hp EXCEPT !.pc = "compact", !.messages = m2, !.summary_calls = @ + 1]
        ELSE [hp EXCEPT !.pc = "loop", !.messages = m2]

\* compact_messages, lines 1099-1101: the summarization request, when the turn makes one
Summarizing(p) ==
    IF h'[p].pc = "compact"
    THEN llm_requests < MaxLlmRequests /\ llm_requests' = llm_requests + 1
    ELSE llm_requests' = llm_requests

\* load_messages_from_db
load_messages_from_db(chat_type) ==
    history_to_claude_messages(
        IF chat_type = "group"
        THEN get_messages_since_last_bot_response(config.max_history_messages,
                                                  config.max_history_messages)
        ELSE get_recent_messages(config.max_history_messages))

\* lines 485-493, 520-523: db.load_session(chat_id)
LoadSession(p) ==
    /\ h[p].pc = "load"
    /\ h' = [h EXCEPT ![p] =
               IF ~session.exists \/ from_str(session) = <<>>
               THEN [@ EXCEPT !.pc = "history"]
               ELSE [@ EXCEPT !.pc = "catchup", !.messages = from_str(session),
                              !.updated_at = session.updated_at]]
    /\ UNCHANGED <<auxvars, config, chat, clock, db_messages, session, session_lock, started, llm_requests, rcvars, iovars>>

\* lines 493, 522: the history path
LoadHistory(p) ==
    /\ h[p].pc = "history"
    /\ h' = [h EXCEPT ![p] = Prepare(@, load_messages_from_db(@.chat_type))]
    /\ Summarizing(p)
    /\ UNCHANGED <<auxvars, config, chat, clock, db_messages, session, session_lock, started, rcvars, iovars>>

\* lines 501-517: one new stored message merged into or appended to the session messages
CatchUpPush(session_messages, stored_msg) ==
    LET content == format_user_message(stored_msg.content)
    IN  IF session_messages # <<>> /\ Last(session_messages).role = "user"
           /\ Last(session_messages).type = "Text"
        THEN [session_messages EXCEPT ![Len(session_messages)].text = @ \o content]
        ELSE Append(session_messages, TextMsg("user", content))

RECURSIVE CatchUpFold(_, _)
CatchUpFold(session_messages, new_msgs) ==
    IF new_msgs = <<>> THEN session_messages
    ELSE CatchUpFold(CatchUpPush(session_messages, Head(new_msgs)), Tail(new_msgs))

\* lines 495-518: db.get_new_user_messages_since(chat_id, updated_at) and the merge
CatchUp(p) ==
    /\ h[p].pc = "catchup"
    /\ h' = [h EXCEPT ![p] =
               Prepare(@, CatchUpFold(@.messages, get_new_user_messages_since(@.updated_at)))]
    /\ Summarizing(p)
    /\ UNCHANGED <<auxvars, config, chat, clock, db_messages, session, session_lock, started, rcvars, iovars>>

\* compact_messages: the summarization call returns, or fails
CompactReturn(p) ==
    /\ h[p].pc = "compact"
    /\ \E ok \in BOOLEAN :
          h' = [h EXCEPT ![p].pc = "loop",
                         ![p].summary_failed = ~ok,
                         ![p].messages =
                            IF ok THEN compact_messages_ok(@, config.compact_keep_recent)
                            ELSE compact_messages_err(@, config.compact_keep_recent)]
    /\ UNCHANGED <<auxvars, config, chat, clock, db_messages, session, session_lock, started, llm_requests, rcvars, iovars>>


(***************************************************************************)
(* The LLM client's answers (crate::llm, external): a stop reason and an   *)
(* ordered list of content blocks, or an error.                            *)
(***************************************************************************)
Response(stop_reason, content) == [err |-> FALSE, stop_reason |-> stop_reason, content |-> content]
LlmError == [err |-> TRUE, stop_reason |-> None, content |-> <<>>]

\* the tool_use answers
ToolUseResponses ==
    { Response("tool_use", <<>>),
      Response("tool_use", <<ToolUse(1)>>),
      Response("tool_use", <<TextBlock(ReplyText), ToolUse(2), ToolUse(1)>>) }

\* the answers that end a turn; None stands for an absent stop reason
FinalResponses ==
    { Response("end_turn", <<TextBlock(ReplyText)>>),
      Response("max_tokens", <<TextBlock(ThinkingReplyText)>>),
      Response(None, <<>>),
      Response("refusal", <<>>),
      Response("refusal", <<ToolUse(1), TextBlock(ReplyText)>>) }

Responses == {LlmError} \cup ToolUseResponses \cup FinalResponses

\* the answers of the runs with two concurrent handlers
RaceResponses ==
    {LlmError, Response("tool_use", <<ToolUse(1)>>),
     Response("end_turn", <<TextBlock(ReplyText)>>)}

\* AgentEvent: Iteration, ToolStart, ToolResult, TextDelta, FinalResponse
AgentEvent(e, n, is_error, text) == [e |-> e, n |-> n, is_error |-> is_error, text |-> text]
Iteration(iteration) == AgentEvent("Iteration", iteration, FALSE, <<>>)
ToolStart(id) == AgentEvent("ToolStart", id, FALSE, <<>>)
ToolResultEvent(id, is_error) == AgentEvent("ToolResult", id, is_error, <<>>)
TextDelta(delta) == AgentEvent("TextDelta", 0, FALSE, delta)
FinalResponse(text) == AgentEvent("FinalResponse", 0, FALSE, text)

\* lines 586-605: the text of a streamed response reaches the sink as TextDelta events,
\* all of them before the loop goes on (forward_handle.await)
Deltas(content) ==
    LET texts == SelectSeq(content, LAMBDA b : b.t = "Text")
    IN  [k \in 1..Len(texts) |-> TextDelta(texts[k].text)]

\* the send with a mutation: it waits until the receiver has taken the earlier events
Emit_Rendezvous(p, events) ==
    /\ h[p].sink => forwarded = Len(evt_tx)
    /\ evt_tx' = IF h[p].sink THEN evt_tx \o events ELSE evt_tx

\* `if let Some(tx) = event_tx { let _ = tx.send(..) }`: an unbounded channel, the send
\* returns at once and its result is dropped
Emit(p, events) ==
    evt_tx' = IF h[p].sink THEN evt_tx \o events ELSE evt_tx

\* lines 651-664: the response blocks as owned content blocks
AssistantContent(content) ==
    [i \in 1..Len(content) |->
        IF content[i].t = "Text" THEN TextBlock(content[i].text) ELSE ToolUse(content[i].id)]

\* the index of the first ToolUse block at or after position i, 0 when there is none
RECURSIVE NextToolUse(_, _)
NextToolUse(content, i) ==
    IF i > Len(content) THEN 0
    ELSE IF content[i].t = "ToolUse" THEN i ELSE NextToolUse(content, i + 1)

\* line 579 with a mutation: the loop does not compare the iteration with the budget
LLMCall_Unbounded(p) ==
    /\ h[p].pc = "loop"
    /\ llm_requests < MaxLlmRequests
    /\ llm_requests' = llm_requests + 1
    /\ h' = [h EXCEPT ![p].pc = "llm", ![p].llm_calls = @ + 1]
    /\ Emit(p, <<Iteration(h[p].iteration + 1)>>)
    /\ UNCHANGED <<auxvars, config, chat, clock, db_messages, session, session_lock, started, rcvars, rxvars>>

\* line 579: the loop asks for the next round trip while iterations remain
LLMCall(p) ==
    /\ h[p].pc = "loop"
    /\ h[p].iteration < config.max_tool_iterations
    /\ llm_requests < MaxLlmRequests
    /\ llm_requests' = llm_requests + 1
    /\ h' = [h EXCEPT ![p].pc = "llm", ![p].llm_calls = @ + 1]
    /\ Emit(p, <<Iteration(h[p].iteration + 1)>>)
    /\ UNCHANGED <<auxvars, config, chat, clock, db_messages, session, session_lock, started, rcvars, rxvars>>

\* lines 626-634 with a mutation: the assistant text is not pushed before the write
FinalMessages_NoPush(messages, text) == strip_images_for_session(messages)

\* lines 626-634, 736-744, 760-767: the final assistant text is pushed, the images are
\* stripped and the session row is written
FinalMessages(messages, text) ==
    strip_images_for_session(Append(messages, TextMsg("assistant", text)))

\* lines 756-775: the iteration budget is used up
MaxIterations(p) ==
    /\ h[p].pc = "loop"
    /\ h[p].iteration >= config.max_tool_iterations
    /\ LET messages == FinalMessages(h[p].messages, MaxIterText)
       IN  /\ session' = SavedSession(messages)
           /\ h' = [h EXCEPT ![p].pc = "ret", ![p].messages = messages,
                             ![p].outcome = "MaxIterationsReached", ![p].text = MaxIterText]
    /\ clock' = clock + 1
    /\ Emit(p, <<FinalResponse(MaxIterText)>>)
    /\ UNCHANGED <<auxvars, config, chat, db_messages, session_lock, started, llm_requests, rcvars, rxvars>>

LLMFail_Save(p, resp) ==
    /\ h[p].pc = "llm"
    /\ resp.err
    /\ session' = SavedSession(h[p].messages)
    /\ h' = [h EXCEPT ![p].pc = "ret", ![p].outcome = "Failed"]
    /\ UNCHANGED <<auxvars, config, chat, clock, db_messages, session_lock, started, llm_requests, rcvars, iovars>>

\* lines 601, 609: the round trip failed, `?` returns the error
LLMFail(p, resp) ==
    /\ h[p].pc = "llm"
    /\ resp.err
    /\ h' = [h EXCEPT ![p].pc = "ret", ![p].outcome = "Failed"]
    /\ UNCHANGED <<auxvars, config, chat, clock, db_messages, session, session_lock, started, llm_requests, rcvars, iovars>>

\* line 612: stop_reason.unwrap_or("end_turn")
StopReason(resp) == IF resp.stop_reason = None THEN "end_turn" ELSE resp.stop_reason

\* lines 614-648 and 724-753: a response that ends the turn
LLMFinal(p, resp) ==
    /\ h[p].pc = "llm"
    /\ ~resp.err
    /\ StopReason(resp) # "tool_use"
    /\ LET text == ResponseText(resp.content)
           messages == FinalMessages(h[p].messages, text)
           known == StopReason(resp) \in {"end_turn", "max_tokens"}
       IN  /\ session' = SavedSession(messages)
           /\ h' = [h EXCEPT ![p].pc = "ret", ![p].messages = messages,
                             ![p].outcome = "Done",
                             ![p].stop_reason = StopReason(resp),
                             ![p].text =
                                IF known
                                THEN IF config.show_thinking THEN text ELSE strip_thinking(text)
                                ELSE IF text = <<>> THEN NoResponseText ELSE text]
           /\ Emit(p, Deltas(resp.content) \o
                        IF known
                        THEN <<FinalResponse(IF config.show_thinking THEN text
                                             ELSE strip_thinking(text))>>
                        ELSE IF text = <<>> THEN <<>> ELSE <<FinalResponse(text)>>)
    /\ clock' = clock + 1
    /\ UNCHANGED <<auxvars, config, chat, db_messages, session_lock, started, llm_requests, rcvars, rxvars>>

\* lines 716-721 with a mutation: the tool results are not pushed as a user message
EndToolRound_NoResults(hp) ==
    [hp EXCEPT !.pc = "loop",
               !.iteration = @ + 1, !.response = <<>>, !.i = 0, !.tool_results = <<>>]

\* lines 716-721: the tool results go back as one user message, the next iteration begins
EndToolRound(hp) ==
    [hp EXCEPT !.pc = "loop",
               !.messages = Append(@, BlocksMsg("user", hp.tool_results)),
               !.iteration = @ + 1, !.response = <<>>, !.i = 0, !.tool_results = <<>>]

\* lines 672-682 with a mutation: the for loop ends after the first executed tool
NextTool_SkipRest(hp, from) ==
    LET j == NextToolUse(hp.response, from)
    IN  IF j = 0 \/ from > 1 THEN EndToolRound(hp) ELSE [hp EXCEPT !.pc = "tool", !.i = j]

\* lines 672-682: the for loop reaches the next ToolUse block and awaits its execution
NextTool(hp, from) ==
    LET j == NextToolUse(hp.response, from)
    IN  IF j = 0 THEN EndToolRound(hp) ELSE [hp EXCEPT !.pc = "tool", !.i = j]

\* lines 674-676: ToolStart is sent before the tool a handler has reached is executed
ToolStartEvents(hp) ==
    IF hp.pc = "tool" THEN <<ToolStart(hp.response[hp.i].id)>> ELSE <<>>

\* lines 650-682 with a mutation: ToolStart is sent before the streamed text is forwarded
LLMToolUse_StartFirst(p, resp) ==
    /\ h[p].pc = "llm"
    /\ ~resp.err
    /\ StopReason(resp) = "tool_use"
    /\ h' = [h EXCEPT ![p] =
               NextTool([@ EXCEPT !.messages =
                                     Append(@, BlocksMsg("assistant",
                                                         AssistantContent(resp.content))),
                                  !.response = resp.content, !.tool_results = <<>>], 1)]
    /\ Emit(p, ToolStartEvents(h'[p]) \o Deltas(resp.content))
    /\ UNCHANGED <<auxvars, config, chat, clock, db_messages, session, session_lock, started, llm_requests, rcvars, rxvars>>

\* lines 650-682: a tool_use response
LLMToolUse(p, resp) ==
    /\ h[p].pc = "llm"
    /\ ~resp.err
    /\ StopReason(resp) = "tool_use"
    /\ h' = [h EXCEPT ![p] =
               NextTool([@ EXCEPT !.messages =
                                     Append(@, BlocksMsg("assistant",
                                                         AssistantContent(resp.content))),
                                  !.response = resp.content, !.tool_results = <<>>], 1)]
    /\ Emit(p, Deltas(resp.content) \o ToolStartEvents(h'[p]))
    /\ UNCHANGED <<auxvars, config, chat, clock, db_messages, session, session_lock, started, llm_requests, rcvars, rxvars>>

\* lines 679-713 with a mutation: a tool error is returned as the turn's error
ToolReturn_FailFast(p) ==
    /\ h[p].pc = "tool"
    /\ \E is_error \in BOOLEAN :
          /\ h' = [h EXCEPT ![p] =
                  IF is_error THEN [@ EXCEPT !.pc = "ret", !.outcome = "Failed"]
                  ELSE NextTool([@ EXCEPT !.tool_results =
                                        Append(@, ToolResult(h[p].response[h[p].i].id,
                                                             is_error))],
                           h[p].i + 1)]
          /\ Emit(p, <<ToolResultEvent(h[p].response[h[p].i].id, is_error)>>
                       \o ToolStartEvents(h'[p]))
    /\ UNCHANGED <<auxvars, config, chat, clock, db_messages, session, session_lock, started, llm_requests, rcvars, rxvars>>

\* lines 679-713: execute_with_auth returned; its result is collected under the block's id
ToolReturn(p) ==
    /\ h[p].pc = "tool"
    /\ \E is_error \in BOOLEAN :
          /\ h' = [h EXCEPT ![p] =
                  NextTool([@ EXCEPT !.tool_results =
                                        Append(@, ToolResult(h[p].response[h[p].i].id,
                                                             is_error))],
                           h[p].i + 1)]
          /\ Emit(p, <<ToolResultEvent(h[p].response[h[p].i].id, is_error)>>
                       \o ToolStartEvents(h'[p]))
    /\ UNCHANGED <<auxvars, config, chat, clock, db_messages, session, session_lock, started, llm_requests, rcvars, rxvars>>

\* whether the handler stores a bot message once the turn returned
StoresBot(hp) ==
    CASE hp.kind = "web" -> hp.outcome # "Failed"
      [] hp.kind = "scheduler" -> hp.outcome = "Failed" \/ hp.text # <<>>
      [] OTHER -> hp.outcome # "Failed" /\ hp.text # <<>>

\* the text of that bot message
BotText(hp) ==
    IF hp.outcome = "Failed" THEN <<Tok("Scheduled task failed", 0)>> ELSE hp.text

\* what the handler sends to the chat once the turn returned: the reply (telegram.rs
\* 384-403, discord.rs 138-170, the web response of web.rs 617-636), or one error
\* message for a failed turn (telegram.rs 404-408, discord.rs 171-176, the web error
\* response of web.rs 592-615, scheduler.rs 84-100)
Delivery(hp) ==
    IF hp.outcome = "Failed" THEN <<"Error">>
    ELSE IF hp.kind = "web" \/ hp.text # <<>> THEN <<"Reply">>
    ELSE <<>>

\* the handler delivers the turn's result, stores the bot message, releases the web lock
HandlerFinish(p) ==
    /\ h[p].pc = "ret"
    /\ ~h[p].sink
    /\ outbox' = outbox \o Delivery(h[p])
    /\ IF StoresBot(h[p])
       THEN /\ db_messages' = Append(db_messages, StoredMessage(BotText(h[p]), TRUE, clock))
            /\ clock' = clock + 1
       ELSE UNCHANGED <<db_messages, clock>>
    /\ session_lock' = IF h[p].kind = "web" THEN None ELSE session_lock
    /\ h' = [h EXCEPT ![p] = IdleH]
    /\ UNCHANGED <<auxvars, config, chat, session, started, llm_requests, rcvars,
                   evt_tx, forwarded, run_state, run_events, client>>

\* /reset (telegram.rs 161-167, discord.rs, web.rs api_reset): db.delete_session(chat_id)
Reset ==
    /\ session.exists
    /\ started < MaxHandlers
    /\ chat.channel = "telegram" => ~TelegramBusy
    /\ session' = NoSession
    /\ started' = started + 1
    /\ UNCHANGED <<auxvars, config, chat, clock, db_messages, session_lock, llm_requests, h, rcvars, iovars>>

\* no client has opened GET /api/stream
NoClient == [state |-> "none", pos |-> 0, got |-> <<>>]

\* the chat's routing (ChatRouting: the channel and the conversation kind)
Routings ==
    { [channel |-> "telegram", chat_type |-> "private"],
      [channel |-> "telegram", chat_type |-> "group"],
      [channel |-> "discord", chat_type |-> "group"],
      [channel |-> "web", chat_type |-> "private"] }

Config(max_tool_iterations) ==
    [max_tool_iterations |-> max_tool_iterations,
     max_session_messages |-> MaxSessionMessages,
     compact_keep_recent |-> CompactKeepRecent,
     max_history_messages |-> MaxHistoryMessages,
     show_thinking |-> FALSE]

InitAgent ==
    /\ AuxOff
    /\ config \in {Config(n) : n \in ToolIterationChoices}
    /\ chat \in Routings
    /\ clock = 1
    /\ db_messages = <<>>
    /\ session = NoSession
    /\ session_lock = None
    /\ started = 0
    /\ llm_requests = 0
    /\ h = [p \in Handlers |-> IdleH]
    /\ outbox = <<>>
    /\ evt_tx = <<>>
    /\ forwarded = 0
    /\ run_state = "none"
    /\ run_events = <<>>
    /\ client = NoClient

\* the registry is not used
RegistryOff ==
    /\ NEXT_RUN_ID = FirstRunId
    /\ ACTIVE_RUNS = << >>
    /\ ABORTED_SOURCE_MESSAGE_IDS = << >>
    /\ cancelled = [r \in FirstRunId..(FirstRunId + MaxRuns) |-> FALSE]
    /\ task = [t \in Tasks |-> Idle]

\* no handler runs
CoreOff ==
    /\ config = Config(0)
    /\ chat = [channel |-> "web", chat_type |-> "private"]
    /\ clock = 1
    /\ db_messages = <<>>
    /\ session = NoSession
    /\ session_lock = None
    /\ started = 0
    /\ llm_requests = 0
    /\ h = [p \in Handlers |-> IdleH]
    /\ outbox = <<>>
    /\ evt_tx = <<>>
    /\ forwarded = 0
    /\ run_state = "none"
    /\ run_events = <<>>
    /\ client = NoClient

\* no handler runs and nothing else of the program does
AgentOff == AuxOff /\ CoreOff

Turn(p, R) ==
    \/ StoreMessage(p)
    \/ LoadSession(p)
    \/ LoadHistory(p)
    \/ CatchUp(p)
    \/ CompactReturn(p)
    \/ LLMCall(p)
    \/ MaxIterations(p)
    \/ \E resp \in R : LLMFail(p, resp)
    \/ \E resp \in R : LLMFinal(p, resp)
    \/ \E resp \in R : LLMToolUse(p, resp)
    \/ ToolReturn(p)
    \/ HandlerFinish(p)

\* process_with_agent_with_events is called for a chat whose rows and session are given
ProcessStart(p) ==
    /\ h[p].pc = "idle"
    /\ started < 1
    /\ started' = started + 1
    /\ \E override_prompt \in BOOLEAN, image \in BOOLEAN :
          h' = [h EXCEPT ![p] =
                  [IdleH EXCEPT !.pc = "load",
                                !.kind = IF override_prompt THEN "scheduler" ELSE chat.channel,
                                !.chat_type = chat.chat_type,
                                !.respond = TRUE,
                                !.override_prompt = override_prompt,
                                !.image_data = image]]
    /\ UNCHANGED <<auxvars, config, chat, clock, db_messages, session, session_lock, llm_requests, rcvars, iovars>>

\* web.rs api_send_stream, lines 399-404 and 495-498: the run's broadcast channel is
\* created in the RunHub, the task is spawned, the run id is returned
SendStream(p) ==
    /\ h[p].pc = "idle"
    /\ run_state = "none"
    /\ run_state' = "created"
    /\ started' = started + 1
    /\ h' = [h EXCEPT ![p] = [IdleH EXCEPT !.pc = "lock", !.kind = "web",
                                           !.chat_type = "private", !.respond = TRUE,
                                           !.sink = TRUE]]
    /\ UNCHANGED <<auxvars, config, chat, clock, db_messages, session, session_lock, llm_requests, rcvars,
                   outbox, evt_tx, forwarded, run_events, client>>

\* web.rs 412-457: what the forward task broadcasts for an AgentEvent it received
ForwardEvent(evt) ==
    CASE evt.e = "Iteration" -> <<RunEvent("status", <<>>)>>
      [] evt.e = "ToolStart" -> <<RunEvent("tool_start", <<>>)>>
      [] evt.e = "ToolResult" -> <<RunEvent("tool_result", <<>>)>>
      [] evt.e = "TextDelta" -> <<RunEvent("delta", evt.text)>>
      [] OTHER -> <<>>

\* web.rs 414-457: the forward task receives the next AgentEvent of the sink
Forward ==
    /\ forwarded < Len(evt_tx)
    /\ forwarded' = forwarded + 1
    /\ run_events' = run_events \o ForwardEvent(evt_tx[forwarded + 1])
    /\ UNCHANGED <<auxvars, config, chat, clock, db_messages, session, session_lock, started, llm_requests,
                   h, rcvars, outbox, evt_tx, run_state, client>>

\* web.rs 459-481 and 617-629: the turn returned to the run's task, which stores the
\* bot message of a successful turn and broadcasts "done" or "error" itself
StreamFinish(p) ==
    /\ h[p].pc = "ret"
    /\ h[p].sink
    /\ IF h[p].outcome # "Failed"
       THEN /\ db_messages' = Append(db_messages, StoredMessage(h[p].text, TRUE, clock))
            /\ clock' = clock + 1
       ELSE UNCHANGED <<db_messages, clock>>
    /\ run_events' = Append(run_events,
                            IF h[p].outcome = "Failed" THEN RunEvent("error", <<>>)
                            ELSE RunEvent("done", h[p].text))
    /\ h' = [h EXCEPT ![p].pc = "drain"]
    /\ UNCHANGED <<auxvars, config, chat, session, session_lock, started, llm_requests, rcvars,
                   outbox, evt_tx, forwarded, run_state, client>>

\* web.rs 482-488: drop(evt_tx), forward.await returns once the forward task has taken
\* every event; remove_later is spawned and the task ends, releasing the session lock
StreamEnd(p) ==
    /\ h[p].pc = "drain"
    /\ forwarded = Len(evt_tx)
    /\ run_state' = "finished"
    /\ session_lock' = None
    /\ h' = [h EXCEPT ![p] = IdleH]
    /\ UNCHANGED <<auxvars, config, chat, clock, db_messages, session, started, llm_requests, rcvars,
                   outbox, evt_tx, forwarded, run_events, client>>

\* web.rs 61-68: remove_later, after its sleep, removes the run's channel from the RunHub
RemoveLater ==
    /\ run_state = "finished"
    /\ run_state' = "removed"
    /\ UNCHANGED <<auxvars, config, chat, clock, db_messages, session, session_lock, started, llm_requests,
                   h, rcvars, outbox, evt_tx, forwarded, run_events, client>>

\* web.rs api_stream, lines 508-512: a client that was given the run id opens the
\* stream; hub.get finds the channel or not, subscribe() starts at the events sent from
\* now on
Subscribe ==
    /\ client.state = "none"
    /\ run_state # "none"
    /\ client' = IF run_state = "removed" THEN [client EXCEPT !.state = "not_found"]
                 ELSE [state |-> "open", pos |-> Len(run_events), got |-> <<>>]
    /\ UNCHANGED <<auxvars, config, chat, clock, db_messages, session, session_lock, started, llm_requests,
                   h, rcvars, outbox, evt_tx, forwarded, run_state, run_events>>

\* web.rs api_stream, lines 513-523: rx.recv() yields the next event; the stream ends
\* after "done" or "error"
ClientRecv ==
    /\ client.state = "open"
    /\ client.pos + Len(client.got) < Len(run_events)
    /\ LET evt == run_events[client.pos + Len(client.got) + 1]
       IN  client' = [client EXCEPT !.got = Append(@, evt.event),
                                    !.state = IF evt.event \in {"done", "error"}
                                              THEN "ended" ELSE "open"]
    /\ UNCHANGED <<auxvars, config, chat, clock, db_messages, session, session_lock, started, llm_requests,
                   h, rcvars, outbox, evt_tx, forwarded, run_state, run_events>>

\* web.rs api_stream, lines 527-529: every Sender is gone (the task and the forward
\* task ended, the RunHub entry removed) and nothing is left to receive: Closed
ClientClosed ==
    /\ client.state = "open"
    /\ run_state = "removed"
    /\ client.pos + Len(client.got) = Len(run_events)
    /\ client' = [client EXCEPT !.state = "closed"]
    /\ UNCHANGED <<auxvars, config, chat, clock, db_messages, session, session_lock, started, llm_requests,
                   h, rcvars, outbox, evt_tx, forwarded, run_state, run_events>>

\* the answers of the streaming runs
StreamResponses ==
    {LlmError,
     Response("tool_use", <<TextBlock(ReplyText), ToolUse(1)>>),
     Response("end_turn", <<TextBlock(ReplyText)>>),
     Response("refusal", <<>>),
     Response("refusal", <<TextBlock(ThinkingReplyText)>>)}

\* the steps of the task spawned by api_send_stream up to its forward.await
StreamTask(p) ==
    \/ WebLock(p)
    \/ StoreMessage(p)
    \/ LoadSession(p)
    \/ LoadHistory(p)
    \/ LLMCall(p)
    \/ MaxIterations(p)
    \/ \E resp \in StreamResponses : LLMFail(p, resp)
    \/ \E resp \in StreamResponses : LLMFinal(p, resp)
    \/ \E resp \in StreamResponses : LLMToolUse(p, resp)
    \/ ToolReturn(p)
    \/ StreamFinish(p)

\* a web chat without rows
InitStream ==
    /\ RegistryOff
    /\ InitAgent
    /\ chat = [channel |-> "web", chat_type |-> "private"]

\* one streaming run, its forward task, the RunHub and one client of GET /api/stream
NextStream ==
    \/ SendStream("h1")
    \/ StreamTask("h1")
    \/ StreamEnd("h1")
    \/ Forward
    \/ RemoveLater
    \/ Subscribe
    \/ ClientRecv
    \/ ClientClosed

\* the stored histories of n rows: every order of user and bot rows
Histories(n) ==
    { [k \in 1..n |-> StoredMessage(IF bot[k] THEN ReplyText ELSE RawContent(k), bot[k], k)] :
        bot \in [1..n -> BOOLEAN] }

\* the session rows of a chat with n stored rows: none, one without messages, one of an
\* earlier turn written at any time of the history, and the same rows with a blob that
\* does not parse
Sessions(n) ==
    {NoSession} \cup
    { [exists |-> TRUE, parses |-> ok, messages |-> m, updated_at |-> u] :
        ok \in BOOLEAN,
        m \in {<<>>, <<TextMsg("user", format_user_message(RawContent(1))),
                       TextMsg("assistant", ReplyText)>>},
        u \in 0..n }

\* resume_or_build alone: any stored history and any session row, then one turn up to
\* its message list
InitBuild ==
    /\ RegistryOff
    /\ AuxOff
    /\ config = Config(1)
    /\ chat \in Routings
    /\ \E n \in 0..MaxStored :
          /\ db_messages \in Histories(n)
          /\ session \in Sessions(n)
          /\ clock = n + 1
    /\ session_lock = None
    /\ started = 0
    /\ llm_requests = 0
    /\ h = [p \in Handlers |-> IdleH]
    /\ outbox = <<>>
    /\ evt_tx = <<>>
    /\ forwarded = 0
    /\ run_state = "none"
    /\ run_events = <<>>
    /\ client = NoClient

NextBuild == ProcessStart("h1") \/ LoadSession("h1") \/ LoadHistory("h1") \/ CatchUp("h1")

\* one handler at a time, every answer of the LLM client
NextLoop == HandlerStart("h1") \/ WebLock("h1") \/ Turn("h1", Responses) \/ Reset

\* two concurrent handlers
Next == (\E p \in Handlers : HandlerStart(p) \/ WebLock(p) \/ Turn(p, RaceResponses)) \/ Reset

\* one handler whose turn carries a registered run, and a task that registers and aborts
NextCancel == HandlerStartRun("h1") \/ Turn("h1", RaceResponses) \/ RCStep("t1")

InitSpecRC == InitRC /\ AgentOff

InitSpec == RegistryOff /\ InitAgent

\* the chat and the configuration of the runs with a registered run
InitCancel ==
    /\ InitRC
    /\ InitAgent
    /\ config = Config(2)
    /\ chat = [channel |-> "discord", chat_type |-> "group"]

SpecRC == InitSpecRC /\ [][NextRC]_vars

\* the registry with tasks that wait on a run's Notify
SpecWake == InitSpecRC /\ [][NextWake]_vars

SpecLoop == InitSpec /\ [][NextLoop]_vars

\* SpecLoop where the handler task keeps being scheduled and every call it awaits returns
SpecLoopLive == InitSpec /\ [][NextLoop]_vars /\ WF_vars(Turn("h1", Responses))

Spec == InitSpec /\ [][Next]_vars
SpecBuild == InitBuild /\ [][NextBuild]_vars

SpecStream == InitStream /\ [][NextStream]_vars

\* SpecStream where the run's task keeps being scheduled and every call it awaits
\* returns; nothing is assumed of the forward task, the RunHub or the client
SpecStreamLive == InitStream /\ [][NextStream]_vars /\ WF_vars(StreamTask("h1"))

SpecCancel == InitCancel /\ [][NextCancel]_vars

(***************************************************************************)
(* Properties of the run registry, checked under SpecRC.                   *)
(***************************************************************************)
\* every run of an abort_runs call's snapshot is flagged and has its source id recorded
AbortDone(t) ==
    /\ \A i \in 1..Len(task[t].runs) : is_cancelled(task[t].runs[i].run_id)
    /\ \A i \in 1..Len(task[t].ids) : is_aborted_source_message(task[t].key, task[t].ids[i])

\* C1, the steps of one abort_runs call: the call takes the n runs registered under its
\* key at that time; when it returns it returns n, each of those runs is flagged and
\* every source id they carry is recorded; with n = 0 it changes neither map
C1Step ==
    \A t \in Tasks :
        /\ (task[t].pc = "idle" /\ task'[t].pc = "ab_flags") =>
              /\ task'[t].runs = RunsOf(ACTIVE_RUNS, task'[t].key)
              /\ task'[t].count = Len(RunsOf(ACTIVE_RUNS, task'[t].key))
              /\ task'[t].ids = FilterSourceIds(task'[t].runs)
              /\ task'[t].count = 0 =>
                    /\ ACTIVE_RUNS' = ACTIVE_RUNS
                    /\ ABORTED_SOURCE_MESSAGE_IDS' = ABORTED_SOURCE_MESSAGE_IDS
        /\ (task[t].pc \in {"ab_flags", "ab_notify", "ab_ret"} /\ task'[t] # task[t]) =>
              /\ task'[t].pc \in {"ab_flags", "ab_notify", "ab_ret"} =>
                    /\ task'[t].runs = task[t].runs
                    /\ task'[t].count = task[t].count
                    /\ task'[t].ids = task[t].ids
              /\ task[t].count = 0 =>
                    /\ ACTIVE_RUNS' = ACTIVE_RUNS
                    /\ ABORTED_SOURCE_MESSAGE_IDS' = ABORTED_SOURCE_MESSAGE_IDS
                    /\ cancelled' = cancelled
        /\ (task[t].pc = "ab_ret" /\ task'[t].pc = "idle") =>
              /\ task[t].count = Len(task[t].runs)
              /\ AbortDone(t)

\* C1: abort_runs on a key with n >= 0 registered runs returns n, flags each of the n
\* runs and records each source id they carry, so that is_aborted_source_message is
\* true for them afterwards; with n = 0 it returns 0 and changes neither the active-run
\* map nor the aborted-id set
C1_AbortRuns == [][C1Step]_vars

\* an abort_runs call about to return 2, for two runs of which at least one carries an id
C1_Witness ==
    \E t \in Tasks : /\ task[t].pc = "ab_ret"
                     /\ task[t].count = 2
                     /\ task[t].ids # <<>>

\* C2: no reachable state has a run that abort_runs removed from the active set while
\* its cancelled flag is still false or its source id is not yet in the aborted set
C2_AbortAtomic ==
    \A t \in Tasks : task[t].pc \in {"ab_flags", "ab_notify", "ab_ret"} => AbortDone(t)

\* the run ids held by the register calls under way and by the stored runs
C20Pending == {t \in Tasks : task[t].pc = "reg_push"}
C20StoredIds(key) == {RunsOf(ACTIVE_RUNS, key)[i].run_id : i \in 1..Len(RunsOf(ACTIVE_RUNS, key))}

\* C20, the state: every id handed out is below the counter, no two register calls
\* hold the same id, no id is stored twice or under two keys or while its call is
\* still under way
C20Ids ==
    /\ \A t \in C20Pending : task[t].run_id \in FirstRunId..(NEXT_RUN_ID - 1)
    /\ \A t, u \in C20Pending : t # u => task[t].run_id # task[u].run_id
    /\ \A key \in Keys :
          /\ C20StoredIds(key) \subseteq FirstRunId..(NEXT_RUN_ID - 1)
          /\ Cardinality(C20StoredIds(key)) = Len(RunsOf(ACTIVE_RUNS, key))
          /\ \A t \in C20Pending : task[t].run_id \notin C20StoredIds(key)
    /\ \A k1, k2 \in Keys : k1 # k2 => C20StoredIds(k1) \cap C20StoredIds(k2) = {}

\* C20, the steps: the counter never decreases; a register call takes the counter's
\* value, which is above every id handed out before, and raises the counter; it then
\* appends the run to the vector of its own key, with the flag false, and changes no
\* other key
C20Step ==
    /\ NEXT_RUN_ID' >= NEXT_RUN_ID
    /\ \A t \in Tasks :
          /\ (task[t].pc = "idle" /\ task'[t].pc = "reg_push") =>
                /\ task'[t].run_id = NEXT_RUN_ID
                /\ NEXT_RUN_ID' > task'[t].run_id
          /\ (task[t].pc = "reg_push" /\ task'[t] # task[t]) =>
                /\ task'[t].pc = "idle"
                /\ RunsOf(ACTIVE_RUNS', task[t].key) =
                      Append(RunsOf(ACTIVE_RUNS, task[t].key),
                             ActiveRun(task[t].run_id, task[t].source_message_id))
                /\ \A key \in Keys \ {task[t].key} :
                      RunsOf(ACTIVE_RUNS', key) = RunsOf(ACTIVE_RUNS, key)
                /\ ~cancelled'[task[t].run_id]

\* C20: register returns a run id distinct from every other id ever returned and
\* greater than every id returned by a register call completed before it, whatever the
\* keys and the interleaving; the run is stored under exactly the given key with its
\* cancelled flag false
C20_RegisterIds == [](C20Ids) /\ [][C20Step]_vars

\* two overlapping register calls on one key: the one that took the later id stored
\* its run first
C20_Witness ==
    \E key \in Keys :
        /\ Len(RunsOf(ACTIVE_RUNS, key)) = 2
        /\ ACTIVE_RUNS[key][1].run_id = FirstRunId + 1
        /\ ACTIVE_RUNS[key][2].run_id = FirstRunId
        /\ ~cancelled[FirstRunId] /\ ~cancelled[FirstRunId + 1]

\* C21, the state: no key of the active map has an empty vector
C21NoEmptyKey == \A key \in DOMAIN ACTIVE_RUNS : ACTIVE_RUNS[key] # <<>>

\* C21, the steps: unregister_run is the one call that leaves every task where it was;
\* when it changes anything, it takes one registered run out of the vector of one key,
\* keeps the other runs of that key in their order and every other key as it was,
\* drops the key when the vector became empty, and touches no flag and no aborted id
C21Step ==
    (task' = task /\ ACTIVE_RUNS' # ACTIVE_RUNS) =>
        /\ cancelled' = cancelled
        /\ ABORTED_SOURCE_MESSAGE_IDS' = ABORTED_SOURCE_MESSAGE_IDS
        /\ NEXT_RUN_ID' = NEXT_RUN_ID
        /\ \E key \in DOMAIN ACTIVE_RUNS :
              \E i \in 1..Len(ACTIVE_RUNS[key]) :
                 /\ RunsOf(ACTIVE_RUNS', key) =
                       SubSeq(ACTIVE_RUNS[key], 1, i - 1)
                         \o SubSeq(ACTIVE_RUNS[key], i + 1, Len(ACTIVE_RUNS[key]))
                 /\ (key \in DOMAIN ACTIVE_RUNS') <=> Len(ACTIVE_RUNS[key]) > 1
                 /\ \A other \in Keys \ {key} :
                       /\ (other \in DOMAIN ACTIVE_RUNS') <=> (other \in DOMAIN ACTIVE_RUNS)
                       /\ RunsOf(ACTIVE_RUNS', other) = RunsOf(ACTIVE_RUNS, other)

\* C21: unregister removes only the run with the given id under the given key, leaves
\* the other runs, the cancelled flags and the aborted ids as they were, drops the key
\* with its last run, so that no key maps to an empty list, and changes nothing for an
\* id that is not registered
C21_UnregisterFrame == [](C21NoEmptyKey) /\ [][C21Step]_vars

\* two runs were registered and the first one unregistered: the second is still there,
\* no flag is set
C21_Witness ==
    /\ NEXT_RUN_ID = FirstRunId + 2
    /\ \A t \in Tasks : task[t].pc = "idle"
    /\ ~cancelled[FirstRunId] /\ ~cancelled[FirstRunId + 1]
    /\ \E key \in Keys :
          /\ DOMAIN ACTIVE_RUNS = {key}
          /\ Len(ACTIVE_RUNS[key]) = 1
          /\ ACTIVE_RUNS[key][1].run_id = FirstRunId + 1

(***************************************************************************)
(* Properties of concurrent turns on one chat, checked under Spec.         *)
(***************************************************************************)
\* C3: at most one turn of the chat is between its load_session and its save_session
C3_OneTurnGenerating ==
    Cardinality({p \in Handlers : h[p].pc \in Generating}) <= 1

\* the n-th stored row is part of the message list, as the text format_user_message
\* made of it
Contains(messages, n) ==
    \E j \in 1..Len(messages) :
        \E i \in 1..Len(message_to_text(messages[j])) :
            message_to_text(messages[j])[i] = Tok("user_message", n)

\* C4: a turn whose inbound message was stored while an earlier turn of the chat was
\* generating sends that message to the LLM client, from its catch-up step or from the
\* session it resumed
C4_NoLostMessage ==
    \A p \in Handlers :
        (h[p].pc = "llm" /\ h[p].during) => Contains(h[p].messages, h[p].stored)

\* C5: every message list passed to the LLM client is non-empty and ends with a
\* message of role user
C5_EndsWithUser ==
    \A p \in Handlers :
        h[p].pc = "llm" => (h[p].messages # <<>> /\ Last(h[p].messages).role = "user")

\* C7, the state: a stored session ends with an assistant text message
C7Stored ==
    session.exists =>
        /\ session.messages # <<>>
        /\ Last(session.messages).role = "assistant"
        /\ Last(session.messages).type = "Text"

\* C7, the steps: the session row changes only by a reset or by a turn's terminal
\* transition out of the loop, which writes that turn's list; a turn that has written
\* does not go back into the loop
C7Step ==
    /\ session' # session =>
          \/ ~session'.exists
          \/ \E p \in Handlers :
                /\ h[p].pc \in {"loop", "llm"}
                /\ h'[p].pc = "ret"
                /\ h'[p].outcome \in {"Done", "MaxIterationsReached"}
                /\ session'.messages = h'[p].messages
    /\ \A p \in Handlers : h[p].pc = "ret" => h'[p].pc \in {"ret", "idle"}

\* C7: the loop writes the session only at a terminal transition (Done, other stop
\* reason, MaxIterationsReached), at most once per turn and never during a tool round;
\* every stored session ends with an assistant text message, never with a ToolUse or
\* ToolResult message
C7_TerminalWrites == [](C7Stored) /\ [][C7Step]_vars

\* a turn that went through a tool round has written the session
C7_Witness ==
    \E p \in Handlers :
        /\ h[p].pc = "ret"
        /\ h[p].outcome = "Done"
        /\ h[p].iteration >= 1
        /\ session.exists
        /\ session.messages = h[p].messages

\* C11, the steps of handler p: a failed round trip ends the turn with an error and
\* writes nothing; the handler of a failed turn sends one error message; no other step
\* of a turn sends to the chat, and only a successful terminal step writes the session
C11Step ==
    \A p \in Handlers :
        h'[p] # h[p] =>
            /\ (h[p].pc = "llm" /\ h'[p].pc = "ret" /\ h'[p].outcome = "Failed") =>
                   /\ session' = session
                   /\ h'[p].messages = h[p].messages
            /\ h'[p].outcome = "Failed" => h[p].pc = "llm" \/ h[p].outcome = "Failed"
            /\ h[p].outcome = "Failed" =>
                   /\ h[p].pc = "ret" /\ h'[p].pc = "idle"
                   /\ session' = session
                   /\ outbox' = Append(outbox, "Error")
            /\ h[p].pc # "ret" => outbox' = outbox
            /\ session' # session =>
                   /\ h[p].pc # "ret" /\ h'[p].pc = "ret"
                   /\ h'[p].outcome \in {"Done", "MaxIterationsReached"}

\* C11: when the LLM call fails in any iteration the turn returns an error without
\* writing the session, so the stored session is the one from before the turn, and the
\* handler sends exactly one error message to the chat
C11_LlmFailure == [][C11Step]_vars

\* a turn wrote the session and was answered, the next one failed and was answered with
\* the error message: the session of the first is still stored
C11_Witness ==
    /\ outbox = <<"Reply", "Error">>
    /\ session.exists
    /\ \A p \in Handlers : h[p].pc = "idle"

(***************************************************************************)
(* Properties of a turn with a registered run, checked under SpecCancel.   *)
(***************************************************************************)
\* C6: once the cancelled flag of a turn's run is set, the turn makes no further LLM
\* call, starts no further tool and does not change the stored session
C6Step ==
    \A p \in Handlers :
        (h[p].run_id # 0 /\ is_cancelled(h[p].run_id)) =>
            /\ h'[p].llm_calls = h[p].llm_calls
            /\ h'[p].pc = "tool" => (h[p].pc = "tool" /\ h'[p].i = h[p].i)
            /\ session' = session

C6_CancelStops == [][C6Step]_vars

(***************************************************************************)
(* Properties of the agent loop, checked under SpecLoop and SpecLoopLive.  *)
(***************************************************************************)
\* C8, the step that ends a turn whose budget is used up
C8Step ==
    \A p \in Handlers :
        (h[p].pc = "loop" /\ h'[p].pc = "ret") =>
            /\ h[p].iteration >= config.max_tool_iterations
            /\ h'[p].outcome = "MaxIterationsReached"
            /\ h'[p].text = MaxIterText
            /\ session'.exists
            /\ session'.messages = h'[p].messages
            /\ Last(session'.messages) = TextMsg("assistant", MaxIterText)
            /\ h[p].iteration >= 1 =>
                  LET prev == session'.messages[Len(session'.messages) - 1]
                  IN  /\ prev = Last(h[p].messages)
                      /\ prev.role = "user"
                      /\ prev.type = "Blocks"
                      /\ \A k \in 1..Len(prev.blocks) : prev.blocks[k].t = "ToolResult"

\* C8: when the iteration budget is used up with every response a tool_use, the turn
\* returns the fixed max-iterations text and the session it writes ends with that
\* assistant text, directly after the last tool-result user message
C8_MaxIterations == [][C8Step]_vars

\* a turn with a budget of 2 used it up in two tool rounds
C8_Witness ==
    \E p \in Handlers :
        /\ h[p].pc = "ret"
        /\ h[p].outcome = "MaxIterationsReached"
        /\ h[p].iteration = 2

\* C9 as stated: counting every request a turn makes to the LLM client, a turn makes at
\* most max_tool_iterations of them, none with max_tool_iterations = 0, and a turn that
\* entered the loop ends in Done, MaxIterationsReached or Failed
C9_TurnCalls ==
    \A p \in Handlers :
        /\ h[p].llm_calls + h[p].summary_calls <= config.max_tool_iterations
        /\ (h[p].pc = "ret" /\ h[p].outcome # "Empty") =>
              h[p].outcome \in {"Done", "MaxIterationsReached", "Failed"}

\* C9, the state: the loop's round trips are bounded by the budget, the summarization
\* of compaction is at most one more request, the budget's end is a normal result
C9Bounded ==
    \A p \in Handlers :
        /\ h[p].llm_calls <= config.max_tool_iterations
        /\ h[p].iteration <= config.max_tool_iterations
        /\ h[p].llm_calls <= h[p].iteration + 1
        /\ h[p].summary_calls <= 1
        /\ h[p].llm_calls + h[p].summary_calls <= config.max_tool_iterations + 1
        /\ h[p].pc = "ret" =>
              /\ h[p].outcome \in {"Done", "MaxIterationsReached", "Failed", "Empty"}
              /\ h[p].outcome = "Empty" => (h[p].messages = <<>> /\ h[p].llm_calls = 0)
              /\ h[p].outcome = "MaxIterationsReached" => h[p].text = MaxIterText

\* the requests of the model's budget that are left cover the turn's remaining iterations
Affordable(p) ==
    llm_requests + (config.max_tool_iterations - h[p].iteration) <= MaxLlmRequests

\* C9, amended: the loop of a turn makes at most max_tool_iterations round trips (none
\* when it is 0), compaction makes at most one more request, and a turn in the loop
\* whose calls all return ends in Done, MaxIterationsReached or Failed
C9_LoopCalls ==
    /\ [](C9Bounded)
    /\ \A p \in Handlers : (h[p].pc = "loop" /\ Affordable(p)) ~> (h[p].pc = "ret")

\* a turn that compacted and then used up a budget of 1 in a tool round
C9_Witness ==
    \E p \in Handlers :
        /\ h[p].pc = "ret"
        /\ h[p].outcome = "MaxIterationsReached"
        /\ h[p].summary_calls = 1
        /\ h[p].llm_calls = 1
        /\ config.max_tool_iterations = 1

\* the ids of the ToolUse blocks of a content, in order
ToolUseIds(content) ==
    LET uses == SelectSeq(content, LAMBDA b : b.t = "ToolUse")
    IN  [k \in 1..Len(uses) |-> uses[k].id]

\* C10, the state: while a tool runs, the results collected so far are those of the
\* ToolUse blocks before it, in order
C10Running ==
    \A p \in Handlers :
        h[p].pc = "tool" =>
            /\ h[p].response[h[p].i].t = "ToolUse"
            /\ Len(h[p].tool_results) = Len(ToolUseIds(SubSeq(h[p].response, 1, h[p].i - 1)))
            /\ \A k \in 1..Len(h[p].tool_results) :
                  /\ h[p].tool_results[k].t = "ToolResult"
                  /\ h[p].tool_results[k].id =
                        ToolUseIds(SubSeq(h[p].response, 1, h[p].i - 1))[k]

\* C10, the steps: the next tool is the next ToolUse block of the same response; the
\* round ends with one user message of one ToolResult per ToolUse, ids aligned
C10Step ==
    \A p \in Handlers :
        /\ (h[p].pc = "tool" /\ h'[p].pc = "tool" /\ h'[p] # h[p]) =>
              /\ h'[p].response = h[p].response
              /\ h'[p].i > h[p].i
              /\ h'[p].i = NextToolUse(h[p].response, h[p].i + 1)
        /\ (h[p].pc \in {"llm", "tool"} /\ h'[p].pc = "loop") =>
              LET m == h'[p].messages
                  a == m[Len(m) - 1]
                  u == m[Len(m)]
              IN  /\ Len(m) = Len(h[p].messages) + (IF h[p].pc = "llm" THEN 2 ELSE 1)
                  /\ a.role = "assistant" /\ a.type = "Blocks"
                  /\ u.role = "user" /\ u.type = "Blocks"
                  /\ Len(u.blocks) = Len(ToolUseIds(a.blocks))
                  /\ \A k \in 1..Len(u.blocks) :
                        /\ u.blocks[k].t = "ToolResult"
                        /\ u.blocks[k].id = ToolUseIds(a.blocks)[k]

\* C10: the tools of a tool_use response run one at a time in the order of its ToolUse
\* blocks, and the one user message appended afterwards holds one ToolResult per
\* ToolUse, in the same order, with the id of the ToolUse at the same position
C10_ToolOrder == [](C10Running) /\ [][C10Step]_vars

\* a round of two tools ended: the results of ToolUse 2 and ToolUse 1, in that order
C10_Witness ==
    \E p \in Handlers :
        /\ h[p].pc = "loop"
        /\ h[p].messages # <<>>
        /\ Last(h[p].messages).type = "Blocks"
        /\ Len(Last(h[p].messages).blocks) = 2
        /\ Last(h[p].messages).blocks[1].id = 2
        /\ Last(h[p].messages).blocks[2].id = 1

\* C12, the steps: a returning tool, failed or not, leaves the turn running with a
\* ToolResult under the tool's id after the results collected before; the for loop goes
\* on to the next ToolUse block when there is one and otherwise to the next iteration,
\* which is an LLM round trip unless the iteration budget is used up
C12Step ==
    \A p \in Handlers :
        /\ (h[p].pc = "tool" /\ h'[p] # h[p]) =>
              LET results == IF h'[p].pc = "tool" THEN h'[p].tool_results
                             ELSE Last(h'[p].messages).blocks
                  n == Len(h[p].tool_results)
              IN  /\ h'[p].pc \in {"tool", "loop"}
                  /\ h'[p].outcome = h[p].outcome
                  /\ h'[p].pc = "tool" <=> NextToolUse(h[p].response, h[p].i + 1) # 0
                  /\ Len(results) = n + 1
                  /\ SubSeq(results, 1, n) = h[p].tool_results
                  /\ results[n + 1].t = "ToolResult"
                  /\ results[n + 1].id = h[p].response[h[p].i].id
        /\ (h[p].pc = "loop" /\ h'[p] # h[p]) =>
              \/ h'[p].pc = "llm" /\ h'[p].messages = h[p].messages
              \/ /\ h[p].iteration >= config.max_tool_iterations
                 /\ h'[p].outcome = "MaxIterationsReached"

\* C12: a tool execution error never ends the loop: it becomes a ToolResult with
\* is_error for that tool's id, the remaining tools of the response are still executed
\* and the loop continues with the next LLM round trip
C12_ToolErrorContinues == [][C12Step]_vars

\* the first of two tools failed, the second ran, and the next round trip is under way
\* with both results in the last message
C12_Witness ==
    \E p \in Handlers :
        /\ h[p].pc = "llm"
        /\ h[p].iteration >= 1
        /\ Last(h[p].messages).type = "Blocks"
        /\ Len(Last(h[p].messages).blocks) = 2
        /\ Last(h[p].messages).blocks[1].t = "ToolResult"
        /\ Last(h[p].messages).blocks[1].is_error
        /\ ~Last(h[p].messages).blocks[2].is_error

\* C13, the state: the stored session holds no Image block
C13Stored ==
    \A j \in 1..Len(session.messages) :
        \A i \in 1..Len(session.messages[j].blocks) :
            session.messages[j].blocks[i].t # "Image"

\* how strip_images_for_session has to relate a message of the turn to the stored one
C13Stripped(before, after) ==
    /\ after.role = before.role
    /\ after.type = before.type
    /\ after.text = before.text
    /\ Len(after.blocks) = Len(before.blocks)
    /\ \A i \in 1..Len(before.blocks) :
          after.blocks[i] = IF before.blocks[i].t = "Image" THEN TextBlock(ImagePlaceholder)
                            ELSE before.blocks[i]

\* C13, the steps: a session write stores the turn's messages one for one, followed by
\* the final assistant text
C13Step ==
    \A p \in Handlers :
        (h'[p] # h[p] /\ session' # session) =>
            /\ Len(session'.messages) = Len(h[p].messages) + 1
            /\ \A j \in 1..Len(h[p].messages) :
                  C13Stripped(h[p].messages[j], session'.messages[j])

\* C13: no session written to the store contains an Image block: on every persistence
\* path each Image block is replaced by the text block '[image was sent]', and every
\* other block and every Text-content message is stored unchanged
C13_NoImageStored == [](C13Stored) /\ [][C13Step]_vars

\* the turn of a photo message has written its session: the image is a placeholder
\* followed by the caption
C13_Witness ==
    \E p \in Handlers :
        /\ h[p].pc = "ret"
        /\ h[p].image_data
        /\ session.exists
        /\ session.messages = h[p].messages
        /\ \E j \in 1..Len(session.messages) :
              /\ session.messages[j].type = "Blocks"
              /\ Len(session.messages[j].blocks) = 2
              /\ session.messages[j].blocks[1] = TextBlock(ImagePlaceholder)

(***************************************************************************)
(* Properties of resume_or_build, checked under SpecBuild.                 *)
(***************************************************************************)
\* a list that neither begins nor ends with an assistant message
C14Ends(messages) ==
    messages # <<>> => (Head(messages).role # "assistant" /\ Last(messages).role # "assistant")

\* C14: for every stored history, history_to_claude_messages returns a list that
\* neither begins nor ends with an assistant-role message, and the empty list for a
\* history of bot messages only; so does the window a turn loads
C14_HistoryEnds ==
    /\ C14Ends(history_to_claude_messages(db_messages))
    /\ (\A k \in 1..Len(db_messages) : db_messages[k].is_from_bot) =>
          history_to_claude_messages(db_messages) = <<>>
    /\ C14Ends(load_messages_from_db(chat.chat_type))
    /\ \A p \in Handlers :
          (h[p].pc \in {"loop", "compact", "ret"} /\ (~session.exists \/ from_str(session) = <<>>)
             /\ ~h[p].override_prompt) =>
              C14Ends(h[p].messages)

\* a history of a bot row, a user row and a bot row: the list is the one user message,
\* and a turn has built its list from the history
C14_Witness ==
    /\ Len(db_messages) = 3
    /\ db_messages[1].is_from_bot /\ ~db_messages[2].is_from_bot /\ db_messages[3].is_from_bot
    /\ history_to_claude_messages(db_messages) =
          <<TextMsg("user", format_user_message(db_messages[2].content))>>
    /\ ~session.exists
    /\ h["h1"].pc = "loop" /\ ~h["h1"].override_prompt /\ ~h["h1"].image_data
    /\ h["h1"].messages = load_messages_from_db(chat.chat_type)

\* the turn of handler p has its message list
C15Built(p) == h[p].pc \in {"loop", "compact", "ret"}

\* the rows the history path of handler p reads
C15Window(p) ==
    IF h[p].chat_type = "group"
    THEN get_messages_since_last_bot_response(config.max_history_messages,
                                              config.max_history_messages)
    ELSE get_recent_messages(config.max_history_messages)

\* C15 as stated: the list produced by resume_or_build is not empty whenever at least
\* one stored message exists for the chat or an override prompt is supplied
C15_NonEmpty ==
    \A p \in Handlers :
        (C15Built(p) /\ (db_messages # <<>> \/ h[p].override_prompt)) => h[p].messages # <<>>

\* C15, amended: the list produced by resume_or_build is not empty whenever a session
\* with messages is resumed, an override prompt is supplied, or the loaded window holds
\* at least one user row; without any of these it is empty
C15_NonEmptyAmended ==
    \A p \in Handlers :
        C15Built(p) =>
            (h[p].messages # <<>> <=>
                \/ session.exists /\ from_str(session) # <<>>
                \/ h[p].override_prompt
                \/ \E k \in 1..Len(C15Window(p)) : ~C15Window(p)[k].is_from_bot)

\* a turn without override prompt over a history whose window holds a user row between
\* bot rows
C15_Witness ==
    \E p \in Handlers :
        /\ C15Built(p)
        /\ ~session.exists
        /\ ~h[p].override_prompt
        /\ Len(db_messages) = 3
        /\ db_messages[1].is_from_bot /\ ~db_messages[2].is_from_bot /\ db_messages[3].is_from_bot
        /\ Len(h[p].messages) = 1

(***************************************************************************)
(* The empty message list, checked under Spec.                             *)
(***************************************************************************)
\* C16, the state: the loop never holds an empty list, and a turn answered for its
\* empty list has made no LLM request, run no tool and no compaction
C16Empty ==
    \A p \in Handlers :
        /\ h[p].pc \in {"compact", "loop", "llm", "tool"} => h[p].messages # <<>>
        /\ h[p].outcome = "Empty" =>
              /\ h[p].pc = "ret"
              /\ h[p].text = NothingText
              /\ h[p].llm_calls = 0 /\ h[p].summary_calls = 0 /\ h[p].iteration = 0
              /\ h[p].tool_results = <<>>

\* C16, the steps: the turn comes to the empty list straight from building it and
\* returns at once; neither that step nor the handler's next one makes an LLM request
\* or writes the session
C16Step ==
    \A p \in Handlers :
        /\ (h'[p] # h[p] /\ h[p].pc \in {"history", "catchup"} /\ h'[p].messages = <<>>) =>
              h'[p].outcome = "Empty"
        /\ (h'[p] # h[p] /\ (h'[p].outcome = "Empty" \/ h[p].outcome = "Empty")) =>
              /\ h[p].pc \in {"history", "catchup", "ret"}
              /\ h'[p].pc \in {"ret", "idle"}
              /\ llm_requests' = llm_requests
              /\ session' = session

\* C16: if the message list built for a turn is empty, the turn returns the fixed
\* 'nothing to process' response without invoking the LLM client, without executing a
\* tool, without compaction and without writing the session
C16_EmptyShortCircuit == [](C16Empty) /\ [][C16Step]_vars

\* a turn was answered for its empty list although the chat has stored messages
C16_Witness ==
    \E p \in Handlers :
        /\ h[p].pc = "ret"
        /\ h[p].outcome = "Empty"
        /\ h[p].messages = <<>>
        /\ db_messages # <<>>

(***************************************************************************)
(* Properties of a streaming web run, checked under SpecStream and         *)
(* SpecStreamLive.                                                         *)
(***************************************************************************)
\* the FinalResponse events sent on the sink
C17Finals == SelectSeq(evt_tx, LAMBDA evt : evt.e = "FinalResponse")

\* C17: a turn with an event sink that returned a final text (end_turn, max_tokens, any
\* other stop reason, also with the empty text answered '(no response)', or the used-up
\* budget) has sent exactly one FinalResponse event, after every other event of the
\* turn, with the text returned to the caller
C17_OneFinalResponse ==
    \A p \in Handlers :
        (h[p].sink /\ h[p].pc = "ret" /\ h[p].outcome \in {"Done", "MaxIterationsReached"}) =>
            /\ Len(C17Finals) = 1
            /\ Last(evt_tx) = FinalResponse(h[p].text)

\* C18, the state: wherever the run's task stands before its forward.await, its next
\* step can be taken, whatever the forward task has received and whatever the client did
C18Sends ==
    \A p \in Handlers :
        (h[p].sink /\ h[p].pc \notin {"idle", "drain"}) => ENABLED StreamTask(p)

\* C18: the loop's progress never depends on the consumers of its events: with a sink
\* whose receiver is slow or never polled and with no subscriber of the run's broadcast
\* channel, every send returns without waiting and the turn reaches its terminal state
C18_NoConsumerNeeded ==
    /\ [](C18Sends)
    /\ \A p \in Handlers : (h[p].sink /\ h[p].pc = "lock") ~> (h[p].pc = "ret")

\* a turn with a tool round returned while the forward task had received nothing and no
\* client had opened the stream
C18_Witness ==
    \E p \in Handlers :
        /\ h[p].sink
        /\ h[p].pc = "ret"
        /\ h[p].iteration >= 1
        /\ Len(evt_tx) >= 4
        /\ forwarded = 0
        /\ client.state = "none"

\* the text fragments the model streamed in the run, and the delta events the client got
C19Streamed == SelectSeq(evt_tx, LAMBDA evt : evt.e = "TextDelta")
C19Received == SelectSeq(client.got, LAMBDA event : event = "delta")

\* C19: the stream of a client that opened it after send_stream returned the run id
\* ends only after a terminal event (done or error) of the run, which the client has
\* received after the delta events of the text the model streamed
C19_StreamTerminal ==
    client.state \in {"ended", "closed"} =>
        /\ client.got # <<>>
        /\ Last(client.got) \in {"done", "error"}
        /\ Len(C19Received) = Len(C19Streamed)

\* the turn of a streaming run over every answer of the LLM, with nobody reading the sink
SinkTask(p) ==
    \/ WebLock(p)
    \/ StoreMessage(p)
    \/ LoadSession(p)
    \/ LoadHistory(p)
    \/ LLMCall(p)
    \/ MaxIterations(p)
    \/ \E resp \in Responses : LLMFail(p, resp)
    \/ \E resp \in Responses : LLMFinal(p, resp)
    \/ \E resp \in Responses : LLMToolUse(p, resp)
    \/ ToolReturn(p)
    \/ StreamFinish(p)

NextSink == SendStream("h1") \/ SinkTask("h1")

SpecSink == InitStream /\ [][NextSink]_vars

\* the Iteration events sent on the sink so far
C30Iterations == SelectSeq(evt_tx, LAMBDA evt : evt.e = "Iteration")

\* the order of the events on the sink: the k-th Iteration event carries k; a TextDelta
\* comes after an Iteration event with nothing but TextDelta events in between; a
\* ToolStart is the last event while its tool runs and is otherwise followed at once by
\* the ToolResult of that tool, and every ToolResult follows its ToolStart
C30Log ==
    /\ \A k \in 1..Len(C30Iterations) : C30Iterations[k].n = k
    /\ \A j \in 1..Len(evt_tx) :
          /\ evt_tx[j].e = "TextDelta" =>
                \E i \in 1..(j - 1) :
                    /\ evt_tx[i].e = "Iteration"
                    /\ \A m \in (i + 1)..(j - 1) : evt_tx[m].e = "TextDelta"
          /\ evt_tx[j].e = "ToolStart" =>
                IF j = Len(evt_tx) THEN \E p \in Handlers : h[p].sink /\ h[p].pc = "tool"
                ELSE evt_tx[j + 1].e = "ToolResult" /\ evt_tx[j + 1].n = evt_tx[j].n
          /\ evt_tx[j].e = "ToolResult" =>
                j > 1 /\ evt_tx[j - 1] = ToolStart(evt_tx[j].n)

\* the events a step sends belong to the iteration the loop is in: a TextDelta or a
\* ToolStart is sent while the last Iteration event is that of the loop's iteration
C30Step ==
    \A p \in Handlers :
        (h[p].sink /\ h'[p] # h[p]) =>
            \A j \in (Len(evt_tx) + 1)..Len(evt_tx') :
                evt_tx'[j].e \in {"TextDelta", "ToolStart", "ToolResult"} =>
                    /\ C30Iterations # <<>>
                    /\ Last(C30Iterations).n = h[p].iteration + 1

\* C30: with an event sink the events of a turn are sent in loop order: Iteration events
\* carry 1, 2, 3, ... without gap or repeat; the TextDelta events of iteration n come
\* after Iteration{n}, before any ToolStart of iteration n and before Iteration{n+1};
\* every ToolStart is followed by the ToolResult of the same tool before the next
\* ToolStart
C30_LoopOrder == [](C30Log) /\ [][C30Step]_vars

\* two iterations, the first with streamed text and two tools, each event in its place
C30_Witness ==
    /\ Len(evt_tx) >= 7
    /\ SubSeq(evt_tx, 1, 7) = <<Iteration(1), TextDelta(ReplyText), ToolStart(2),
                                ToolResultEvent(2, TRUE), ToolStart(1),
                                ToolResultEvent(1, FALSE), Iteration(2)>>

(***************************************************************************)
(* Text: src/src/text.rs, and the run summary of src/src/scheduler.rs.     *)
(* A string is the sequence of the bytes of its UTF-8 encoding; a byte is  *)
(* <<c, i>>, the i-th byte of the encoding of the code point c.            *)
(***************************************************************************)
\* code points after the one-byte run of a string under examination
MaxChars == 2

CodePoints == {"a", "U+00E9", "U+20AC", "U+1F600"}

\* char::len_utf8
len_utf8(c) ==
    CASE c = "U+00E9" -> 2
      [] c = "U+20AC" -> 3
      [] c = "U+1F600" -> 4
      [] OTHER -> 1

\* the UTF-8 encoding of a code point: a leading byte, then continuation bytes
encode_utf8(c) == [i \in 1..len_utf8(c) |-> <<c, i>>]

\* the string of a sequence of code points
RECURSIVE Str(_)
Str(chars) == IF chars = <<>> THEN <<>> ELSE encode_utf8(Head(chars)) \o Str(Tail(chars))

\* a byte 0b10xxxxxx
IsContinuation(byte) == byte[2] > 1

\* str::is_char_boundary: the start, the end, or a byte that is no continuation byte
is_char_boundary(s, index) ==
    \/ index = 0
    \/ index = Len(s)
    \/ index < Len(s) /\ ~IsContinuation(s[index + 1])

\* the loop of floor_char_boundary with a mutation: the index is returned as it came
floor_loop_Keep(s, index) == index

\* while index > 0 && !s.is_char_boundary(index) { index -= 1 }
RECURSIVE floor_loop(_, _)
floor_loop(s, index) ==
    IF index > 0 /\ ~is_char_boundary(s, index) THEN floor_loop(s, index - 1) ELSE index

floor_char_boundary(s, index) ==
    LET len == Len(s)
    IN  IF index >= len THEN len ELSE floor_loop(s, index)

Panic == <<"panic">>

\* &s[..end]: the bytes before end; slicing inside a code point panics
SliceTo(s, end) == IF is_char_boundary(s, end) THEN SubSeq(s, 1, end) ELSE Panic

\* the bytes of a response the run summary keeps (scheduler.rs 78)
SummaryLimit == 200

Ellipsis == Str(<<".", ".", ".">>)

\* the summary of a task run that succeeded (scheduler.rs 78-82)
result_summary(response) ==
    IF Len(response) > SummaryLimit
    THEN LET prefix == SliceTo(response, floor_char_boundary(response, SummaryLimit))
         IN  IF prefix = Panic THEN Panic ELSE prefix \o Ellipsis
    ELSE response

\* the string of n one-byte code points
Ascii(n) == [k \in 1..n |-> <<"a", 1>>]

\* every sequence of at most n of the code points
RECURSIVE CharsUpTo(_)
CharsUpTo(n) ==
    IF n = 0 THEN {<<>>}
    ELSE LET shorter == CharsUpTo(n - 1)
         IN  shorter \cup {Append(s, c) : s \in shorter, c \in CodePoints}

\* the lengths of the one-byte run a string starts with: none, or up to the limit
LeadLengths == {0} \cup ((SummaryLimit - 3)..SummaryLimit)

\* the byte indexes examined: around the start and around the limit
Indexes == (0..(4 * MaxChars + 1)) \cup ((SummaryLimit - 2)..(SummaryLimit + 4 * MaxChars + 1))

\* the strings examined: a run of one-byte code points, then any code points
FloorArgs ==
    [fn : {"floor_char_boundary"}, lead : LeadLengths, chars : CharsUpTo(MaxChars), index : Indexes]
SummaryArgs == [fn : {"result_summary"}, lead : LeadLengths, chars : CharsUpTo(MaxChars)]

\* the string of an argument
ArgStr(a) == Ascii(a.lead) \o Str(a.chars)

FloorCharBoundary ==
    /\ arg.fn = "floor_char_boundary"
    /\ ret = NoRet
    /\ ret' = Some(floor_char_boundary(ArgStr(arg), arg.index))
    /\ UNCHANGED <<arg, rcvars, webvars, corevars, schedvars, guardvars, toolvars>>

ResultSummary ==
    /\ arg.fn = "result_summary"
    /\ ret = NoRet
    /\ ret' = Some(result_summary(ArgStr(arg)))
    /\ UNCHANGED <<arg, rcvars, webvars, corevars, schedvars, guardvars, toolvars>>

(***************************************************************************)
(* strip_thinking on the characters of a text: telegram.rs 907-922.        *)
(* (The agent loop above applies it to texts whose tags are whole tokens.) *)
(***************************************************************************)
\* fragments a text under examination is made of
MaxFragments == 4

Chars(string) ==
    CASE string = "<think>" -> <<"<", "t", "h", "i", "n", "k", ">">>
      [] string = "</think>" -> <<"<", "/", "t", "h", "i", "n", "k", ">">>
      [] string = "<thi" -> <<"<", "t", "h", "i">>
      [] string = "nk>" -> <<"n", "k", ">">>
      [] OTHER -> <<string>>

ThinkOpenStr == Chars("<think>")
ThinkCloseStr == Chars("</think>")

\* the texts examined are made of these: tags, halves of a tag, a letter, white space
Fragments == {"<think>", "</think>", "<thi", "nk>", "x", " "}

RECURSIVE FragmentsUpTo(_)
FragmentsUpTo(n) ==
    IF n = 0 THEN {<<>>}
    ELSE LET shorter == FragmentsUpTo(n - 1)
         IN  shorter \cup {Append(s, f) : s \in shorter, f \in Fragments}

\* the text of a sequence of fragments
RECURSIVE Concat(_)
Concat(fragments) ==
    IF fragments = <<>> THEN <<>> ELSE Chars(Head(fragments)) \o Concat(Tail(fragments))

\* text[from..].find(pattern), as an index of text counted from 1; 0 for None
Find(text, pattern, from) ==
    LET hits == {i \in from..(Len(text) - Len(pattern) + 1) :
                    SubSeq(text, i, i + Len(pattern) - 1) = pattern}
    IN  IF hits = {} THEN 0 ELSE CHOOSE i \in hits : \A j \in hits : i <= j

\* char::is_whitespace on the characters of the texts
IsWhitespace(c) == c = " "

\* str::trim
RECURSIVE trim(_)
trim(text) ==
    IF text = <<>> THEN text
    ELSE IF IsWhitespace(Head(text)) THEN trim(Tail(text))
    ELSE IF IsWhitespace(text[Len(text)]) THEN trim(SubSeq(text, 1, Len(text) - 1))
    ELSE text

\* the loop of strip_thinking with a mutation: an unclosed <think> keeps what follows it
strip_loop_KeepUnclosed(result, rest) ==
    LET start == Find(rest, ThinkOpenStr, 1)
    IN  IF start = 0 THEN result \o rest
        ELSE result \o SubSeq(rest, 1, start - 1)
                \o SubSeq(rest, start + Len(ThinkOpenStr), Len(rest))

\* while let Some(start) = rest.find("<think>") { ... }; result.push_str(rest)
RECURSIVE strip_loop(_, _)
strip_loop(result, rest) ==
    LET start == Find(rest, ThinkOpenStr, 1)
    IN  IF start = 0 THEN result \o rest
        ELSE LET end == Find(rest, ThinkCloseStr, start)
             IN  IF end = 0 THEN result \o SubSeq(rest, 1, start - 1)
                 ELSE strip_loop(result \o SubSeq(rest, 1, start - 1),
                                 SubSeq(rest, end + Len(ThinkCloseStr), Len(rest)))

strip_thinking_str(text) == trim(strip_loop(<<>>, text))

ThinkArgs == [fn : {"strip_thinking"}, fragments : FragmentsUpTo(MaxFragments)]

StripThinking ==
    /\ arg.fn = "strip_thinking"
    /\ ret = NoRet
    /\ ret' = Some(strip_thinking_str(Concat(arg.fragments)))
    /\ UNCHANGED <<arg, rcvars, webvars, corevars, schedvars, guardvars, toolvars>>

(***************************************************************************)
(* compact_messages applied again to its own result: telegram.rs 1064-1157 *)
(***************************************************************************)
\* messages of a list under examination
MaxCompactMessages == 4

Roles == {"user", "assistant"}

\* the lists examined: text messages of any roles, the n-th with the content of its own
MessageLists ==
    UNION {{[i \in 1..n |-> TextMsg(roles[i], RawContent(i))] : roles \in [1..n -> Roles]} :
              n \in 0..MaxCompactMessages}

\* an exchange with tool rounds as the loop records it (telegram.rs 650-718): the user
\* message, per round the assistant message with its ToolUse block and the user message
\* with the ToolResult block of the same id, then the assistant's final text
ToolExchange(first, rounds) ==
    <<TextMsg("user", RawContent(first))>>
    \o Flatten([k \in 1..rounds |->
          <<BlocksMsg("assistant", <<TextBlock(ReplyText), ToolUse(first + k)>>),
            BlocksMsg("user", <<ToolResult(first + k, FALSE)>>)>>])
    \o <<TextMsg("assistant", ReplyText)>>

\* sessions with tool rounds: an exchange of one or two rounds, after an exchange without
\* tools or not, before a new user message or not
ToolSessions ==
    {before \o ToolExchange(2, rounds) \o after :
        before \in {<<>>, ToolExchange(1, 0)},
        rounds \in 1..2,
        after \in {<<>>, <<TextMsg("user", RawContent(9))>>}}

CompactArgs ==
    [fn : {"compact_messages"}, messages : MessageLists \cup ToolSessions,
     keep_recent : 0..(MaxCompactMessages - 1)]

\* compact_messages(llm, messages, keep_recent) on the list, then on each result; the
\* summarization call of each application succeeds or fails
CompactMessages ==
    /\ arg.fn = "compact_messages"
    /\ Len(ret) < 2
    /\ \E ok \in BOOLEAN :
          LET messages == IF ret = NoRet THEN arg.messages ELSE Last(ret)
          IN  ret' = Append(ret, IF ok THEN compact_messages_ok(messages, arg.keep_recent)
                                 ELSE compact_messages_err(messages, arg.keep_recent))
    /\ UNCHANGED <<arg, rcvars, webvars, corevars, schedvars, guardvars, toolvars>>

\* the pure functions are examined one argument at a time, over every argument of the sets
FnArgs == FloorArgs \cup SummaryArgs \cup ThinkArgs \cup CompactArgs

InitFn ==
    /\ RegistryOff
    /\ CoreOff
    /\ WebOff
    /\ SchedOff
    /\ GuardOff
    /\ ToolOff
    /\ arg \in FnArgs
    /\ ret = NoRet

NextFn == FloorCharBoundary \/ ResultSummary \/ StripThinking \/ CompactMessages

SpecFn == InitFn /\ [][NextFn]_vars

\* the length in bytes of a sequence of code points
RECURSIVE CharsLen(_)
CharsLen(chars) == IF chars = <<>> THEN 0 ELSE len_utf8(Head(chars)) + CharsLen(Tail(chars))

\* the byte offsets of an argument's string at which one of its code points ends
C29Boundaries(a) ==
    (0..a.lead) \cup {a.lead + CharsLen(SubSeq(a.chars, 1, k)) : k \in 0..Len(a.chars)}

\* C29: floor_char_boundary returns the largest code-point boundary of the string that is
\* at most min(index, length in bytes); so the summary of a response of more than 200
\* bytes is a prefix of the response of at most 200 bytes that ends on a code-point
\* boundary, followed by "..."
C29_FloorBoundary ==
    (arg.fn \in {"floor_char_boundary", "result_summary"} /\ ret # NoRet) =>
        LET s == ArgStr(arg)
            bounds == C29Boundaries(arg)
        IN  /\ arg.fn = "floor_char_boundary" =>
                LET most == IF arg.index < Len(s) THEN arg.index ELSE Len(s)
                IN  /\ ret[1] \in bounds
                    /\ ret[1] <= most
                    /\ \A b \in bounds : b <= most => b <= ret[1]
            /\ (arg.fn = "result_summary" /\ Len(s) > SummaryLimit) =>
                \E end \in bounds :
                    /\ end <= SummaryLimit
                    /\ ret[1] = SubSeq(s, 1, end) \o Ellipsis
            /\ (arg.fn = "result_summary" /\ Len(s) <= SummaryLimit) => ret[1] = s

\* a response of more than 200 bytes whose byte 200 lies inside a four-byte code point
\* was summarised
C29_Witness ==
    /\ arg.fn = "result_summary"
    /\ ret # NoRet
    /\ arg.lead = SummaryLimit - 2
    /\ arg.chars # <<>>
    /\ arg.chars[1] = "U+1F600"

\* the characters of a text that lie in no <think> span, by position: the first <think>
\* at or after a position opens a span that ends with the first </think> after it, or
\* with the text
RECURSIVE C28Kept(_, _)
C28Kept(text, from) ==
    LET start == Find(text, ThinkOpenStr, from)
    IN  IF start = 0 THEN from..Len(text)
        ELSE LET end == Find(text, ThinkCloseStr, start + Len(ThinkOpenStr))
             IN  (from..(start - 1)) \cup
                 (IF end = 0 THEN {} ELSE C28Kept(text, end + Len(ThinkCloseStr)))

\* the characters of a text at a set of positions, in their order
C28Select(text, keep) ==
    LET F[i \in 0..Len(text)] ==
            IF i = 0 THEN <<>>
            ELSE IF i \in keep THEN Append(F[i - 1], text[i]) ELSE F[i - 1]
    IN  F[Len(text)]

\* the text contains a <think> opening tag
C28HasOpen(text) == Find(text, ThinkOpenStr, 1) # 0

\* an opening tag of the text whose characters are all kept
C28KeptOpen(text) ==
    \E i \in 1..(Len(text) - Len(ThinkOpenStr) + 1) :
        /\ SubSeq(text, i, i + Len(ThinkOpenStr) - 1) = ThinkOpenStr
        /\ i..(i + Len(ThinkOpenStr) - 1) \subseteq C28Kept(text, 1)

\* C28 as stated: the think filter removes every <think>...</think> span and everything
\* from an unterminated <think> on, the returned text contains no <think> opening tag,
\* and a text without tags is returned unchanged apart from the trimming
C28_NoOpenTag ==
    (arg.fn = "strip_thinking" /\ ret # NoRet) =>
        LET text == Concat(arg.fragments)
        IN  /\ ret[1] = trim(C28Select(text, C28Kept(text, 1)))
            /\ ~C28HasOpen(ret[1])
            /\ ~C28HasOpen(text) => ret[1] = trim(text)

\* C28, amended: the think filter removes, from left to right, every span from a <think>
\* to the first </think> after it and everything from an unterminated <think> on, and
\* trims the rest; no opening tag of the text survives, so a <think> in the returned text
\* is one that the texts before and after a removed span form where they join; a text
\* without tags is returned unchanged apart from the trimming
C28_SpansRemoved ==
    (arg.fn = "strip_thinking" /\ ret # NoRet) =>
        LET text == Concat(arg.fragments)
        IN  /\ ret[1] = trim(C28Select(text, C28Kept(text, 1)))
            /\ ~C28KeptOpen(text)
            /\ (\A n \in 1..Len(arg.fragments) : arg.fragments[n] \notin {"<thi", "nk>"})
                  => ~C28HasOpen(ret[1])
            /\ ~C28HasOpen(text) => ret[1] = trim(text)

\* the filter was applied to a text with a closed span, text after it, and an unclosed span
C28_Witness ==
    /\ arg.fn = "strip_thinking"
    /\ ret = Some(<<"x">>)
    /\ arg.fragments = <<"<think>", "</think>", "x", "<think>">>

\* the content of a list that is not of the summary exchange: every piece of text other
\* than the summary and the acknowledgement, with the role of its message, in order
C27Content(messages) ==
    LET pieces == Flatten([i \in 1..Len(messages) |->
                      LET text == message_to_text(messages[i])
                      IN  [j \in 1..Len(text) |-> <<messages[i].role, text[j]>>]])
    IN  SelectSeq(pieces, LAMBDA piece : piece[2] \notin {SummaryText[1], AckText[1]})

\* C27: compacting the result of a compaction again with the same keep_recent_n, no
\* message added in between, yields the recent-tail content of the first compaction:
\* the same text under the same roles in the same order after the summary exchange,
\* and the same last messages
C27_RecentTailIdempotent ==
    (arg.fn = "compact_messages" /\ Len(ret) = 2) =>
        /\ C27Content(ret[2]) = C27Content(ret[1])
        /\ Len(ret[2]) <= Len(ret[1])
        /\ \A n \in 1..(Len(ret[2]) - 2) :
              ret[2][Len(ret[2]) - n + 1] = ret[1][Len(ret[1]) - n + 1]

\* both compactions summarized, and the second one found the acknowledgement among the
\* keep_recent_n messages it kept
C27_Witness ==
    /\ arg.fn = "compact_messages"
    /\ Len(ret) = 2
    /\ arg.keep_recent = 2
    /\ Len(arg.messages) = 4
    /\ Len(ret[1]) = 3
    /\ Len(ret[2]) = 3
    /\ ret[2][1] = TextMsg("user", SummaryText)
    /\ ret[2][2] # ret[1][2]

(***************************************************************************)
(* The duplicate guard: src/src/channels/startup_guard.rs                  *)
(***************************************************************************)
\* calls of the guard in a behaviour
MaxGuardCalls == 3
\* RECENT_DUPLICATE_MAX_IDS_PER_CHANNEL, 20_000 in the source: the ids a channel's map
\* holds before an insert prunes it, scaled to the few ids of the model
MaxIdsPerChannel == 1

RECENT_DUPLICATE_TTL_MS == 600000

\* the tasks that call the guard concurrently
GuardCallers == {"g1", "g2"}
GuardChannels == {"telegram", "discord"}
\* message ids as characters: empty, blank, two ids, and one of them with blanks around
MessageIds == {<<>>, <<" ">>, <<"m">>, <<" ", "m", " ">>, <<"n">>}
\* the milliseconds that pass before a call reads the clock
GuardDeltas == {0, 1, RECENT_DUPLICATE_TTL_MS}

\* the agent loop's variables but the clock
quietvars == <<config, chat, db_messages, session, session_lock, started, llm_requests, h,
               outbox, evt_tx, forwarded, run_state, run_events, client>>

GuardIdle == [pc |-> "idle", channel_name |-> None, message_id |-> <<>>, now_ms |-> 0]

\* a return of the guard, with the time at which it happened
GuardReturn(c, at, dropped) ==
    [channel_name |-> c.channel_name, message_id |-> c.message_id, now_ms |-> c.now_ms,
     at |-> at, dropped |-> dropped]

\* lines 53-58: the id is trimmed, an empty id returns false, else the clock is read
GuardEnter(g) ==
    /\ guard_task[g].pc = "idle"
    /\ Len(guard_returns) + Cardinality({c \in GuardCallers : guard_task[c].pc = "lock"})
          < MaxGuardCalls
    /\ \E channel_name \in GuardChannels, raw \in MessageIds, d \in GuardDeltas :
          LET message_id == trim(raw)
              c == [pc |-> "lock", channel_name |-> channel_name, message_id |-> message_id,
                    now_ms |-> clock + d]
          IN  /\ clock' = clock + d
              /\ IF message_id = <<>>
                 THEN /\ guard_returns' = Append(guard_returns, GuardReturn(c, clock + d, FALSE))
                      /\ UNCHANGED guard_task
                 ELSE /\ guard_task' = [guard_task EXCEPT ![g] = c]
                      /\ UNCHANGED guard_returns
    /\ UNCHANGED <<CHANNEL_RECENT_MESSAGE_IDS, rcvars, webvars, quietvars, schedvars, toolvars, fnvars>>

\* guard.entry(channel_name).or_default()
IdsOfChannel(channel_name) ==
    IF channel_name \in DOMAIN CHANNEL_RECENT_MESSAGE_IDS
    THEN CHANNEL_RECENT_MESSAGE_IDS[channel_name] ELSE << >>

\* ids.retain(|_, seen_ms| now_ms.saturating_sub(*seen_ms) <= RECENT_DUPLICATE_TTL_MS)
RetainRecent(ids, now_ms) ==
    [id \in {k \in DOMAIN ids : now_ms - ids[k] <= RECENT_DUPLICATE_TTL_MS} |-> ids[id]]

\* lines 74-79 with a mutation: the id is not inserted
GuardInsert_Skip(ids, message_id, now_ms) == ids

\* lines 74-79: the id is inserted with the call's time, and a map over the cap is pruned
GuardInsert(ids, message_id, now_ms) ==
    LET inserted == MapPut(ids, message_id, now_ms)
    IN  IF Cardinality(DOMAIN inserted) > MaxIdsPerChannel
        THEN RetainRecent(inserted, now_ms) ELSE inserted

\* lines 59-81, under the mutex: a recent entry of the id returns true; else the id is
\* inserted and the call returns false
GuardCheck(g) ==
    /\ guard_task[g].pc = "lock"
    /\ LET c == guard_task[g]
           ids == IdsOfChannel(c.channel_name)
           dropped == /\ c.message_id \in DOMAIN ids
                      /\ c.now_ms - ids[c.message_id] <= RECENT_DUPLICATE_TTL_MS
       IN  /\ CHANNEL_RECENT_MESSAGE_IDS' =
                 MapPut(CHANNEL_RECENT_MESSAGE_IDS, c.channel_name,
                        IF dropped THEN ids ELSE GuardInsert(ids, c.message_id, c.now_ms))
           /\ guard_returns' = Append(guard_returns, GuardReturn(c, clock, dropped))
    /\ guard_task' = [guard_task EXCEPT ![g] = GuardIdle]
    /\ UNCHANGED <<clock, rcvars, webvars, quietvars, schedvars, toolvars, fnvars>>

InitGuard ==
    /\ RegistryOff
    /\ CoreOff
    /\ WebOff
    /\ SchedOff
    /\ ToolOff
    /\ FnOff
    /\ CHANNEL_RECENT_MESSAGE_IDS = << >>
    /\ guard_task = [g \in GuardCallers |-> GuardIdle]
    /\ guard_returns = <<>>

NextGuard == \E g \in GuardCallers : GuardEnter(g) \/ GuardCheck(g)

SpecGuard == InitGuard /\ [][NextGuard]_vars

\* two returns of the guard are of calls with the same channel and the same id
C25Same(a, b) == a.channel_name = b.channel_name /\ a.message_id = b.message_id

\* C25: for an id that is not empty after trimming, of the calls with the same channel and
\* id made within the TTL of the first one, the first returns false and every later one
\* returns true, also when they race; a call returns true only for such an earlier call
\* of its own channel and id; a call with an empty id returns false
C25_ExactlyFirst ==
    \A j \in 1..Len(guard_returns) :
        LET b == guard_returns[j]
        IN  /\ b.message_id = <<>> => ~b.dropped
            /\ \A i \in 1..(j - 1) :
                  LET a == guard_returns[i]
                  IN  (/\ C25Same(a, b)
                       /\ b.message_id # <<>>
                       /\ ~a.dropped
                       /\ b.at - a.now_ms <= RECENT_DUPLICATE_TTL_MS) => b.dropped
            /\ b.dropped =>
                  \E i \in 1..(j - 1) :
                      LET a == guard_returns[i]
                      IN  /\ C25Same(a, b)
                          /\ ~a.dropped
                          /\ b.now_ms - a.now_ms <= RECENT_DUPLICATE_TTL_MS

\* two calls with one id raced, and the one that took the lock second was dropped although
\* it had read the clock first; a call of the other channel with that id was not dropped
C25_Witness ==
    /\ Len(guard_returns) = 3
    /\ C25Same(guard_returns[1], guard_returns[2])
    /\ ~guard_returns[1].dropped
    /\ guard_returns[2].dropped
    /\ guard_returns[2].now_ms < guard_returns[1].now_ms
    /\ guard_returns[3].message_id = guard_returns[1].message_id
    /\ guard_returns[3].channel_name # guard_returns[1].channel_name
    /\ ~guard_returns[3].dropped

(***************************************************************************)
(* The send_message tool: src/src/tools/send_message.rs, with the channel  *)
(* policy and the delivery of src/src/channel.rs                           *)
(***************************************************************************)
ChatIds == {"100", "200"}
ChatTypes == {"web", "private"}

\* the chats table: every chat is unknown or has a type
ChatTables == UNION {[known -> ChatTypes] : known \in SUBSET ChatIds}

\* the __microclaw_auth object of a tool input, if it has one
AuthContexts ==
    {[present |-> FALSE, caller_chat_id |-> None, control_chat_ids |-> {}]} \cup
    [present : {TRUE}, caller_chat_id : ChatIds, control_chat_ids : SUBSET ChatIds]

\* the inputs of a call: chat_id and text may be missing
ToolInputs == [chat_id : ChatIds \cup {None}, text : {None, "hello"}, auth : AuthContexts]

ToolResultOf(is_error, content) == [is_error |-> is_error, content |-> content]
NoResult == ToolResultOf(FALSE, None)

\* is_web_chat: the chat is known and its type is "web"
is_web_chat(chat_id) == chat_id \in DOMAIN chats /\ chats[chat_id] = "web"

\* the policy with a mutation: the web caller is not looked at
enforce_channel_policy_Open(input, target_chat_id) == "Ok"

\* enforce_channel_policy: a web caller may only operate on its own chat
enforce_channel_policy(input, target_chat_id) ==
    IF ~input.auth.present THEN "Ok"
    ELSE IF is_web_chat(input.auth.caller_chat_id) /\ input.auth.caller_chat_id # target_chat_id
    THEN "Permission denied: web chats cannot operate on other chats"
    ELSE "Ok"

\* lines 55-70: the parameters are read, authorize_chat_access is asked (its answer is
\* any answer: the function is not among the sources), then the channel policy
SendMessageCheck ==
    /\ tool.pc = "call"
    /\ LET input == tool.input
       IN  \E authorized \in BOOLEAN :
             LET error ==
                     IF input.chat_id = None THEN "Missing required parameter: chat_id"
                     ELSE IF input.text = None THEN "Missing required parameter: text"
                     ELSE IF ~authorized THEN "Permission denied"
                     ELSE enforce_channel_policy(input, input.chat_id)
             IN  tool' = IF error = "Ok" THEN [tool EXCEPT !.pc = "deliver"]
                         ELSE [tool EXCEPT !.pc = "done", !.result = ToolResultOf(TRUE, error)]
    /\ UNCHANGED <<chats, chat_messages, telegram_sent, rcvars, webvars, corevars, schedvars, guardvars,
                   fnvars>>

BotMessage(chat_id, text) == [chat_id |-> chat_id, content |-> text, is_from_bot |-> TRUE]

\* lines 72-84 with deliver_and_store_bot_message: a web target gets the row alone; any
\* other target gets the message through the bot, and the row once that succeeded
SendMessageDeliver ==
    /\ tool.pc = "deliver"
    /\ LET chat_id == tool.input.chat_id
           text == tool.input.text
       IN  IF is_web_chat(chat_id)
           THEN /\ chat_messages' = Append(chat_messages, BotMessage(chat_id, text))
                /\ tool' = [tool EXCEPT !.pc = "done",
                                        !.result = ToolResultOf(FALSE, "Message sent successfully.")]
                /\ UNCHANGED telegram_sent
           ELSE \E sent \in BOOLEAN :
                   IF sent
                   THEN /\ telegram_sent' = Append(telegram_sent, <<chat_id, text>>)
                        /\ chat_messages' = Append(chat_messages, BotMessage(chat_id, text))
                        /\ tool' = [tool EXCEPT !.pc = "done",
                                       !.result = ToolResultOf(FALSE, "Message sent successfully.")]
                   ELSE /\ tool' = [tool EXCEPT !.pc = "done",
                                       !.result = ToolResultOf(TRUE, "Failed to send message")]
                        /\ UNCHANGED <<telegram_sent, chat_messages>>
    /\ UNCHANGED <<chats, rcvars, webvars, corevars, schedvars, guardvars, fnvars>>

\* one call of the tool, over every chats table and every input
InitTool ==
    /\ RegistryOff
    /\ CoreOff
    /\ WebOff
    /\ SchedOff
    /\ GuardOff
    /\ FnOff
    /\ chats \in ChatTables
    /\ chat_messages = <<>>
    /\ telegram_sent = <<>>
    /\ tool \in [pc : {"call"}, input : ToolInputs, result : {NoResult}]

NextSendMessage == SendMessageCheck \/ SendMessageDeliver

SpecTool == InitTool /\ [][NextSendMessage]_vars

C26Input == tool.input
C26Caller == C26Input.auth.caller_chat_id
C26CrossChat ==
    /\ C26Input.auth.present
    /\ is_web_chat(C26Caller)
    /\ C26Input.chat_id # None
    /\ C26Input.chat_id # C26Caller
C26Nothing == chat_messages = <<>> /\ telegram_sent = <<>>

MaxTicks == 2

\* the calls of the scheduler that fail in one behaviour
MaxFaults == 1

TaskIds == {1, 2}

\* a next_run that is NULL
Unset == -1

\* a task is a once task, or a cron task whose expression parses and fires every minute,
\* parses and has no occurrence left (a year field in the past), or does not parse
Schedules ==
    {[schedule_type |-> "once", schedule_value |-> "at"],
     [schedule_type |-> "cron", schedule_value |-> "valid"],
     [schedule_type |-> "cron", schedule_value |-> "exhausted"],
     [schedule_type |-> "cron", schedule_value |-> "invalid"]}

ScheduledTask(schedule, next_run) ==
    [schedule_type |-> schedule.schedule_type, schedule_value |-> schedule.schedule_value,
     next_run |-> next_run, last_run |-> Unset]

\* the tasks of the store when the scheduler starts: each one is due at the first tick
TaskTables == [TaskIds -> {ScheduledTask(s, 2) : s \in Schedules}]

\* the chat of a task
TaskChat(id) == IF id = 1 THEN "100" ELSE "200"

\* get_due_tasks: the tasks whose next_run is set and not after now, by id
RECURSIVE DueFrom(_, _)
DueFrom(id, now) ==
    IF id \notin TaskIds THEN <<>>
    ELSE (IF scheduled_tasks[id].next_run # Unset /\ scheduled_tasks[id].next_run <= now
          THEN <<id>> ELSE <<>>) \o DueFrom(id + 1, now)
get_due_tasks(now) == DueFrom(1, now)

\* what process_with_agent returns for a task: Ok with an empty, a short or a long
\* response (201 bytes, byte 200 inside a two-byte character), or Err
ShortResponse == Str(<<"o", "k">>)
LongResponse == Ascii(SummaryLimit - 1) \o Str(<<"U+00E9">>)
AgentError == Str(<<"e", "r", "r">>)
AgentOutcomes ==
    {[ok |-> TRUE, text |-> r] : r \in {<<>>, ShortResponse, LongResponse}} \cup
    {[ok |-> FALSE, text |-> AgentError]}
NoOutcome == [ok |-> FALSE, text |-> <<>>]

\* format!("Scheduled task #{} failed: {e}", task.id)
err_text(id, e) ==
    Str(<<"S", "c", "h", "e", "d", "u", "l", "e", "d", " ", "t", "a", "s", "k", " ", "#",
          ToString(id), " ", "f", "a", "i", "l", "e", "d", ":", " ">>) \o e

\* format!("Error: {e}")
error_summary(e) == Str(<<"E", "r", "r", "o", "r", ":", " ">>) \o e

\* a call the scheduler made for a task, with its answer (success: the flag handed to
\* log_task_run, or whether update_task_after_run got a next run)
SchedCall(call, task_id, ok, text, success) ==
    [call |-> call, tick |-> sched.tick, task |-> task_id, chat_id |-> TaskChat(task_id),
     ok |-> ok, text |-> text, success |-> success]

\* a row of task_run_logs
TaskRunLog(id, success, summary) ==
    [task_id |-> id, chat_id |-> TaskChat(id), started_at |-> sched.started_at,
     finished_at |-> clock, success |-> success, summary |-> summary]

\* the answers a call can get: Ok, and Err while fewer than MaxFaults calls have failed
SchedFaults == Len(SelectSeq(sched_calls, LAMBDA c : ~c.ok))
Answers == IF SchedFaults < MaxFaults THEN BOOLEAN ELSE {TRUE}

SchedSleep(tick) ==
    [pc |-> "sleep", tick |-> tick, due |-> <<>>, i |-> 0, started_at |-> 0,
     outcome |-> NoOutcome, success |-> FALSE, summary |-> <<>>]

\* the task the loop of run_due_tasks is at
SchedTask == sched.due[sched.i]

\* lines 19-36: the sleep ends, now is read, the due tasks are asked for; an Err of the
\* store ends the tick
SchedTick ==
    /\ sched.pc = "sleep"
    /\ sched.tick < MaxTicks
    /\ clock' = clock + 1
    /\ \E ok \in Answers :
         LET tick == sched.tick + 1
             tasks == IF ok THEN get_due_tasks(clock') ELSE <<>>
         IN  /\ sched' = IF tasks = <<>> THEN SchedSleep(tick)
                         ELSE [SchedSleep(tick) EXCEPT !.pc = "agent", !.due = tasks, !.i = 1]
             /\ sched_calls' = Append(sched_calls,
                                      [call |-> "get_due_tasks", tick |-> tick, task |-> 0,
                                       ok |-> ok, text |-> <<>>, success |-> FALSE,
                                       tasks |-> tasks])
    /\ UNCHANGED <<scheduled_tasks, task_run_logs, rcvars, webvars, quietvars, guardvars, toolvars,
                   fnvars>>

\* lines 42-65: the start of the run is taken and the agent loop runs on the prompt
SchedAgent ==
    /\ sched.pc = "agent"
    /\ \E outcome \in {o \in AgentOutcomes : o.ok \in Answers} :
         /\ sched' = [sched EXCEPT !.pc = "deliver", !.started_at = clock,
                                   !.outcome = outcome]
         /\ sched_calls' = Append(sched_calls,
                                  SchedCall("process_with_agent", SchedTask, outcome.ok,
                                            outcome.text, FALSE))
    /\ UNCHANGED <<scheduled_tasks, task_run_logs, clock, rcvars, webvars, quietvars, guardvars,
                   toolvars, fnvars>>

\* the delivery with a mutation: an empty response is delivered too
SchedDelivers_Always(outcome) == TRUE

\* lines 67 and 85-88: what is handed to the delivery
SchedDelivers(outcome) == ~outcome.ok \/ outcome.text # <<>>

\* lines 66-99: the response, or the error message, is delivered, whatever the delivery
\* answers; the summary of the run is made
SchedDeliver ==
    /\ sched.pc = "deliver"
    /\ LET outcome == sched.outcome
           text == IF outcome.ok THEN outcome.text ELSE err_text(SchedTask, outcome.text)
           summary == IF outcome.ok THEN result_summary(outcome.text)
                      ELSE error_summary(outcome.text)
       IN  /\ sched' = [sched EXCEPT !.pc = "log", !.success = outcome.ok,
                                     !.summary = summary]
           /\ IF SchedDelivers(outcome)
              THEN \E ok \in Answers :
                     sched_calls' = Append(sched_calls,
                                           SchedCall("deliver_and_store_bot_message",
                                                     SchedTask, ok, text, FALSE))
              ELSE UNCHANGED sched_calls
    /\ UNCHANGED <<scheduled_tasks, task_run_logs, clock, rcvars, webvars, quietvars, guardvars,
                   toolvars, fnvars>>

\* the run-logging with a mutation: an Err of log_task_run ends the tick
SchedLogRun_Return ==
    /\ sched.pc = "log"
    /\ \E ok \in Answers :
         /\ task_run_logs' = IF ok THEN Append(task_run_logs,
                                               TaskRunLog(SchedTask, sched.success,
                                                          sched.summary))
                             ELSE task_run_logs
         /\ sched_calls' = Append(sched_calls,
                                  SchedCall("log_task_run", SchedTask, ok, <<>>,
                                            sched.success))
         /\ sched' = IF ok THEN [sched EXCEPT !.pc = "update"] ELSE SchedSleep(sched.tick)
    /\ UNCHANGED <<scheduled_tasks, clock, rcvars, webvars, quietvars, guardvars, toolvars, fnvars>>

\* lines 101-124: log_task_run; an Err is logged and the task goes on
SchedLogRun ==
    /\ sched.pc = "log"
    /\ \E ok \in Answers :
         /\ task_run_logs' = IF ok THEN Append(task_run_logs,
                                               TaskRunLog(SchedTask, sched.success,
                                                          sched.summary))
                             ELSE task_run_logs
         /\ sched_calls' = Append(sched_calls,
                                  SchedCall("log_task_run", SchedTask, ok, <<>>,
                                            sched.success))
    /\ sched' = [sched EXCEPT !.pc = "update"]
    /\ UNCHANGED <<scheduled_tasks, clock, rcvars, webvars, quietvars, guardvars, toolvars, fnvars>>

\* lines 127-138: the next run of a task that ran at now: the first occurrence after now
\* of a cron expression that parses, if it has one; nothing for any other task
next_run_after(scheduled, now) ==
    IF scheduled.schedule_type = "cron" /\ scheduled.schedule_value = "valid"
    THEN now + 1
    ELSE Unset

\* the update with a mutation: a task whose update failed is executed again at once
SchedUpdate_Retry ==
    /\ sched.pc = "update"
    /\ \E ok \in Answers :
         LET next_run == next_run_after(scheduled_tasks[SchedTask], clock)
         IN
         /\ scheduled_tasks' =
               IF ok THEN [scheduled_tasks EXCEPT ![SchedTask].last_run = sched.started_at,
                                                  ![SchedTask].next_run = next_run]
               ELSE scheduled_tasks
         /\ sched_calls' = Append(sched_calls,
                                  SchedCall("update_task_after_run", SchedTask, ok, <<>>,
                                            next_run # Unset))
         /\ sched' = IF ~ok THEN [sched EXCEPT !.pc = "agent"]
                     ELSE IF sched.i < Len(sched.due)
                     THEN [sched EXCEPT !.pc = "agent", !.i = sched.i + 1]
                     ELSE SchedSleep(sched.tick)
    /\ UNCHANGED <<task_run_logs, clock, rcvars, webvars, quietvars, guardvars, toolvars, fnvars>>

\* lines 126-149: the next run is computed and update_task_after_run stores it with the
\* start of the run; an Err is logged; the loop goes to the next due task
SchedUpdate ==
    /\ sched.pc = "update"
    /\ \E ok \in Answers :
         LET next_run == next_run_after(scheduled_tasks[SchedTask], clock)
         IN
         /\ scheduled_tasks' =
               IF ok THEN [scheduled_tasks EXCEPT ![SchedTask].last_run = sched.started_at,
                                                  ![SchedTask].next_run = next_run]
               ELSE scheduled_tasks
         /\ sched_calls' = Append(sched_calls,
                                  SchedCall("update_task_after_run", SchedTask, ok, <<>>,
                                            next_run # Unset))
    /\ sched' = IF sched.i < Len(sched.due)
                THEN [sched EXCEPT !.pc = "agent", !.i = sched.i + 1]
                ELSE SchedSleep(sched.tick)
    /\ UNCHANGED <<task_run_logs, clock, rcvars, webvars, quietvars, guardvars, toolvars, fnvars>>

InitSched ==
    /\ RegistryOff
    /\ CoreOff
    /\ WebOff
    /\ GuardOff
    /\ ToolOff
    /\ FnOff
    /\ scheduled_tasks \in TaskTables
    /\ task_run_logs = <<>>
    /\ sched = SchedSleep(0)
    /\ sched_calls = <<>>

NextSched == SchedTick \/ SchedAgent \/ SchedDeliver \/ SchedLogRun \/ SchedUpdate

SpecSched == InitSched /\ [][NextSched]_vars

\* the scheduler task is scheduled by the runtime and its calls return
SpecSchedLive == SpecSched /\ WF_vars(NextSched)

\* the time at which the runs of a tick start
TickTime(n) == n + 1

\* the calls of one kind made for a task in a tick, and the rows of those runs
CallsOf(call, n, id) ==
    SelectSeq(sched_calls, LAMBDA c : c.call = call /\ c.tick = n /\ c.task = id)
RowsOf(n, id) ==
    SelectSeq(task_run_logs, LAMBDA r : r.task_id = id /\ r.started_at = TickTime(n))

\* the ticks that are over, and the tasks the store returned in a tick
TickOver(n) == sched.tick > n \/ (sched.tick = n /\ sched.pc = "sleep")
Returned(n) ==
    {id \in TaskIds : \E k \in 1..Len(sched_calls) :
        /\ sched_calls[k].call = "get_due_tasks"
        /\ sched_calls[k].tick = n
        /\ \E j \in 1..Len(sched_calls[k].tasks) : sched_calls[k].tasks[j] = id}

\* some call of a tick failed
C22Failed(n) == \E k \in 1..Len(sched_calls) : sched_calls[k].tick = n /\ ~sched_calls[k].ok

\* every task returned in a tick that is over was executed once and got one update call
C22Executed ==
    \A n \in 1..MaxTicks : \A id \in Returned(n) :
        TickOver(n) => /\ Len(CallsOf("process_with_agent", n, id)) = 1
                       /\ Len(CallsOf("update_task_after_run", n, id)) = 1

\* after a failure in a tick the next tick begins
C22NextTick ==
    \A n \in 1..(MaxTicks - 1) : (sched.tick = n /\ C22Failed(n)) ~> (sched.tick = n + 1)

\* C22 as stated: within a tick every due task returned by the store is executed, gets a
\* run-log row and a post-run update attempt, whatever failed for another task of the
\* tick; after such a failure the scheduler performs its next tick
C22_EveryDueTaskRow ==
    /\ [](C22Executed)
    /\ [](\A n \in 1..MaxTicks : \A id \in Returned(n) :
             TickOver(n) => Len(RowsOf(n, id)) = 1)
    /\ C22NextTick

\* C22 as the code has it: within a tick every due task returned by the store is executed
\* once, gets one log_task_run call and one update_task_after_run call, whatever failed
\* for itself or for another task of the tick; it has a run-log row exactly if its own
\* log_task_run call was accepted; after any failure the scheduler performs its next tick
C22_EveryDueTaskAttempt ==
    /\ [](C22Executed)
    /\ [](\A n \in 1..MaxTicks : \A id \in Returned(n) :
             TickOver(n) =>
                /\ Len(CallsOf("log_task_run", n, id)) = 1
                /\ Len(RowsOf(n, id)) = (IF CallsOf("log_task_run", n, id)[1].ok THEN 1 ELSE 0))
    /\ C22NextTick

\* the agent loop failed for the first task of a tick, and the second one was executed,
\* has its row and its update
C22_Witness ==
    /\ TickOver(1)
    /\ Returned(1) = {1, 2}
    /\ ~CallsOf("process_with_agent", 1, 1)[1].ok
    /\ CallsOf("process_with_agent", 1, 2)[1].ok
    /\ Len(RowsOf(1, 2)) = 1
    /\ CallsOf("update_task_after_run", 1, 2)[1].ok

\* the runs that have reached their log_task_run call
C24Runs == {r \in (1..MaxTicks) \X TaskIds : Len(CallsOf("log_task_run", r[1], r[2])) = 1}
C24Agent(r) == CallsOf("process_with_agent", r[1], r[2])[1]
C24Deliveries(r) == CallsOf("deliver_and_store_bot_message", r[1], r[2])

\* what the delivery got for a run of task id in which the agent loop returned agent
C24OneDelivery(deliveries, agent, id) ==
    IF agent.ok /\ agent.text = <<>>
    THEN deliveries = <<>>
    ELSE /\ Len(deliveries) = 1
         /\ deliveries[1].text = (IF agent.ok THEN agent.text ELSE err_text(id, agent.text))
         /\ deliveries[1].chat_id = TaskChat(id)

\* the summary of a run: the error text, or the response, cut after its last character
\* that ends within SummaryLimit bytes and followed by "..." when it is longer (a
\* character has at most four bytes, so the cut is at most three bytes below the limit)
C24Summary(agent, summary) ==
    IF ~agent.ok THEN summary = error_summary(agent.text)
    ELSE IF Len(agent.text) <= SummaryLimit THEN summary = agent.text
    ELSE \E k \in (SummaryLimit - 3)..SummaryLimit :
            /\ is_char_boundary(agent.text, k)
            /\ \A j \in (k + 1)..SummaryLimit : ~is_char_boundary(agent.text, j)
            /\ summary = SubSeq(agent.text, 1, k) \o Ellipsis
C24Row(rows, agent, id) ==
    /\ Len(rows) = 1
    /\ rows[1].success = agent.ok
    /\ rows[1].chat_id = TaskChat(id)
    /\ C24Summary(agent, rows[1].summary)

\* C24 as stated: a response that is not empty is delivered once to the chat of the task,
\* an empty one is not delivered, a failure has one formatted error message delivered;
\* then exactly one run-log row is recorded, with the success flag of the agent loop and
\* the (truncated) response or the error text as its summary
C24_OneDeliveryOneRow ==
    \A r \in C24Runs :
        LET agent == C24Agent(r)
            deliveries == C24Deliveries(r)
        IN  /\ IF agent.ok /\ agent.text = <<>> THEN deliveries = <<>>
               ELSE C24OneDelivery(SelectSeq(deliveries, LAMBDA c : c.ok), agent, r[2])
            /\ C24Row(RowsOf(r[1], r[2]), agent, r[2])

\* C24 as the code has it: the response that is not empty, or the formatted error message,
\* is handed to the delivery exactly once, whose answer is ignored, and an empty response
\* is not handed over; log_task_run is then called exactly once with the success flag of
\* the agent loop, and the run has one row with that flag and the summary if the store
\* accepted the call, and no row otherwise
C24_OneDeliveryCallOneLogCall ==
    \A r \in C24Runs :
        LET agent == C24Agent(r)
            log == CallsOf("log_task_run", r[1], r[2])[1]
            rows == RowsOf(r[1], r[2])
        IN  /\ C24OneDelivery(C24Deliveries(r), agent, r[2])
            /\ log.success = agent.ok
            /\ IF log.ok THEN C24Row(rows, agent, r[2]) ELSE rows = <<>>

\* in one tick a long response was delivered and logged cut at the character boundary
\* below the limit, and a failure was delivered as an error message and logged as failed
C24_Witness ==
    /\ TickOver(1)
    /\ {<<1, 1>>, <<1, 2>>} \subseteq C24Runs
    /\ C24Agent(<<1, 1>>).text = LongResponse
    /\ Len(C24Deliveries(<<1, 1>>)) = 1
    /\ C24Deliveries(<<1, 1>>)[1].ok
    /\ Len(RowsOf(1, 1)) = 1
    /\ Len(RowsOf(1, 2)) = 1
    /\ RowsOf(1, 1)[1].summary = Ascii(SummaryLimit - 1) \o Ellipsis
    /\ ~C24Agent(<<1, 2>>).ok
    /\ Len(C24Deliveries(<<1, 2>>)) = 1
    /\ RowsOf(1, 2)[1].success = FALSE

\* the runs that are over, and the last tick in which a task ran
C23Over(n, id) == Len(CallsOf("update_task_after_run", n, id)) = 1
C23Parses(id) ==
    /\ scheduled_tasks[id].schedule_type = "cron"
    /\ scheduled_tasks[id].schedule_value # "invalid"

\* C23: after a once task was executed its next run is unset and no later tick executes
\* it again; the same for a cron task whose expression is invalid; a cron task whose
\* expression is valid has, after its run, a next run after the time of that run
C23_OnceNeverAgain ==
    \A n \in 1..MaxTicks : \A id \in TaskIds :
        C23Over(n, id) =>
            IF C23Parses(id)
            THEN \/ \E m \in (n + 1)..MaxTicks : C23Over(m, id)
                 \/ scheduled_tasks[id].next_run > TickTime(n)
            ELSE /\ scheduled_tasks[id].next_run = Unset
                 /\ \A m \in (n + 1)..MaxTicks : CallsOf("process_with_agent", m, id) = <<>>

\* the positions of the calls of the scheduler, and the run a call belongs to
C40Calls == 1..Len(sched_calls)
C40IsRun(k) == sched_calls[k].call = "process_with_agent"
C40SameRun(k, l) ==
    sched_calls[k].tick = sched_calls[l].tick /\ sched_calls[k].task = sched_calls[l].task

\* the run that starts at call k is over before call l: its update call lies between them
C40OverBefore(k, l) ==
    \E u \in (k + 1)..(l - 1) :
        sched_calls[u].call = "update_task_after_run" /\ C40SameRun(k, u)

\* C40: the executions of the scheduler never overlap: a task execution starts only after
\* the one before it has had its update call, the due-task query of a tick comes only
\* after every execution of the ticks before is over, and a task is executed at most once
\* in a tick, also when occurrences of its cron expression were missed
C40_OneAtATime ==
    /\ \A k \in 1..(Len(sched_calls) - 1) : sched_calls[k].tick <= sched_calls[k + 1].tick
    /\ \A k \in {c \in C40Calls : C40IsRun(c)} : \A l \in (k + 1)..Len(sched_calls) :
          /\ (C40IsRun(l) \/ sched_calls[l].call = "get_due_tasks") => C40OverBefore(k, l)
          /\ C40IsRun(l) => ~C40SameRun(k, l)
    /\ \A k \in C40Calls :
          (~C40IsRun(k) /\ sched_calls[k].call # "get_due_tasks") =>
              \E a \in 1..(k - 1) :
                  /\ C40IsRun(a)
                  /\ C40SameRun(a, k)
                  /\ \A b \in (a + 1)..(k - 1) : C40SameRun(a, b)
    /\ sched.pc \in {"agent", "deliver", "log", "update"} => sched.i \in 1..Len(sched.due)

\* the query of the first tick failed, so both every-minute cron tasks missed an
\* occurrence; the second tick executed each of them once, one after the other
C40_Witness ==
    /\ TickOver(2)
    /\ \A id \in TaskIds : scheduled_tasks[id].schedule_value = "valid"
    /\ \E k \in C40Calls : sched_calls[k].call = "get_due_tasks" /\ ~sched_calls[k].ok
    /\ \A id \in TaskIds : Len(CallsOf("process_with_agent", 2, id)) = 1
    /\ \A id \in TaskIds : Len(CallsOf("update_task_after_run", 2, id)) = 1

\* the session row of the chat is there, and its blob does not parse or holds no message
C34Unusable == session.exists /\ (~session.parses \/ session.messages = <<>>)

C33Input == arg.messages
C33Result == ret[1]
C33Compacted ==
    /\ arg.fn = "compact_messages"
    /\ Len(ret) >= 1
    /\ Len(C33Input) > arg.keep_recent
    /\ C33Result # SubSeq(C33Input, Len(C33Input) - arg.keep_recent + 1, Len(C33Input))

\* C33: a successful compaction of a list longer than keep_recent_n begins with the user
\* '[Conversation Summary]' message, has no two adjacent messages of the same role, does
\* not end with an assistant message and has at most keep_recent_n + 2 messages; a list
\* of at most keep_recent_n messages is returned unchanged
C33_CompactedShape ==
    /\ C33Compacted =>
          /\ C33Result # <<>>
          /\ C33Result[1].role = "user"
          /\ C33Result[1].type = "Text"
          /\ C33Result[1].text # <<>>
          /\ C33Result[1].text[1] = SummaryText[1]
          /\ \A i \in 1..(Len(C33Result) - 1) : C33Result[i].role # C33Result[i + 1].role
          /\ C33Result[Len(C33Result)].role # "assistant"
          /\ Len(C33Result) <= arg.keep_recent + 2
    /\ (arg.fn = "compact_messages" /\ Len(ret) >= 1 /\ Len(C33Input) <= arg.keep_recent) =>
          C33Result = C33Input

\* a list of two user and two assistant messages, the last two kept: the assistant one
\* was merged into the acknowledgement, the result is the summary, the merged message and
\* the last user message
C33_Witness ==
    /\ C33Compacted
    /\ Len(C33Input) = 4
    /\ arg.keep_recent = 2
    /\ C33Input[3].role = "assistant"
    /\ C33Input[4].role = "user"
    /\ Len(C33Result) = 3
    /\ C33Result[2].role = "assistant"
    /\ C33Result[2].text = AckText \o message_to_text(C33Input[3])
    /\ C33Result[3] = C33Input[4]

\* every ToolResult block of a list has a ToolUse block of its id in the assistant message
\* directly before its message
C39Paired(messages) ==
    \A j \in 1..Len(messages) :
        messages[j].type = "Blocks" =>
            \A i \in 1..Len(messages[j].blocks) :
                messages[j].blocks[i].t = "ToolResult" =>
                    /\ j > 1
                    /\ messages[j - 1].role = "assistant"
                    /\ messages[j - 1].type = "Blocks"
                    /\ \E u \in 1..Len(messages[j - 1].blocks) :
                          /\ messages[j - 1].blocks[u].t = "ToolUse"
                          /\ messages[j - 1].blocks[u].id = messages[j].blocks[i].id

\* C39: the list compaction returns for a session with tool rounds, which is the list
\* sent to the LLM client, pairs every ToolResult block with a ToolUse block of the same
\* id in the assistant message directly before it, wherever the split falls
C39_ToolPairsKept ==
    (arg.fn = "compact_messages" /\ Len(ret) >= 1 /\ C39Paired(arg.messages)) =>
        C39Paired(ret[1])

\* the step of a turn whose summarization call failed
C32Step ==
    \A p \in Handlers :
        (h[p].pc = "compact" /\ h'[p] # h[p] /\ h'[p].summary_failed) =>
            LET total == Len(h[p].messages)
                keep_recent == config.compact_keep_recent
            IN  /\ total > keep_recent
                /\ Len(h'[p].messages) = keep_recent
                /\ \A n \in 1..keep_recent :
                      h'[p].messages[n] = h[p].messages[total - keep_recent + n]
                /\ h'[p].pc = "loop"
                /\ h'[p].outcome = h[p].outcome

\* C32: when the summarization call of a compaction fails, the turn goes on into the
\* agent loop with exactly the last keep_recent_n messages of the list it had, unchanged
\* and in order; the failure does not fail the turn
C32_FallbackKeepsRecent ==
    /\ [][C32Step]_vars
    /\ [](\A p \in Handlers : h[p].pc = "compact" => h[p].outcome # "Failed")

\* a turn whose summarization failed asked the LLM with the last message it had and
\* returned its reply
C32_Witness ==
    /\ h["h1"].summary_failed
    /\ h["h1"].pc = "ret"
    /\ h["h1"].llm_calls = 1
    /\ h["h1"].outcome \notin {"Failed", "Empty"}

\* the step of a turn that a response with a stop reason other than end_turn, max_tokens
\* and tool_use ends
C31Other(p) ==
    /\ h[p].pc = "llm"
    /\ h'[p].pc = "ret"
    /\ h'[p].outcome = "Done"
    /\ h'[p].stop_reason \notin {None, "end_turn", "max_tokens", "tool_use"}

\* the text of the assistant message the step appended
C31Text(p) == h'[p].messages[Len(h'[p].messages)].text

\* the assistant text is appended, the images are stripped, the session is persisted
C31Saved(p) ==
    /\ Len(h'[p].messages) = Len(h[p].messages) + 1
    /\ h'[p].messages[Len(h'[p].messages)].role = "assistant"
    /\ \A n \in 1..Len(h[p].messages) :
          h'[p].messages[n] = strip_images_for_session(<<h[p].messages[n]>>)[1]
    /\ session'.exists
    /\ session'.messages = h'[p].messages

\* C31: a response with any other stop reason ends the turn with the steps of end_turn:
\* the assistant text is appended, images are stripped, the session is persisted, the
\* returned text has its <think> spans removed unless show_thinking is set, and an empty
\* text is returned as the marker (no response)
C31_OtherStopReasonAsEndTurn ==
    [][\A p \in Handlers :
          C31Other(p) =>
              /\ C31Saved(p)
              /\ h'[p].text = IF C31Text(p) = <<>> THEN NoResponseText
                              ELSE IF config.show_thinking THEN C31Text(p)
                              ELSE strip_thinking(C31Text(p))]_vars

\* the part of C31 that holds: appended, stripped, persisted, the marker for no text, and
\* a text that is not empty returned as the response gave it
C31SavedAndMarker ==
    [][\A p \in Handlers :
          C31Other(p) =>
              /\ C31Saved(p)
              /\ h'[p].text = IF C31Text(p) = <<>> THEN NoResponseText ELSE C31Text(p)]_vars

(***************************************************************************)
(* Properties of the registry's flags and wake-ups, checked under SpecRC   *)
(* and SpecWake.                                                           *)
(***************************************************************************)
\* C37: abort_runs stores a run's cancelled flag before it wakes the run's waiters, so a
\* waiter that an abort woke reads is_cancelled = true when it resumes, whatever the
\* interleaving: the flag is set from the wake-up on, and the value read is true
C37_WokenSeesCancelled ==
    \A t \in Tasks :
        /\ task[t].pc = "woken" => is_cancelled(task[t].run_id)
        /\ task[t].pc = "resumed" => task[t].observed

\* a waiter resumed and read true while the abort_runs call that woke it has still to
\* flag and wake the second run of its snapshot
C37_Witness ==
    \E t, u \in Tasks :
        /\ task[t].pc = "resumed"
        /\ task[t].observed
        /\ task[u].pc \in {"ab_flags", "ab_notify"}
        /\ task[u].count = 2
        /\ task[u].i = 2

\* the run ids handed out, those stored under a key, those of the abort_runs calls under way
C36RunIds == FirstRunId..(NEXT_RUN_ID - 1)
C36Stored(key) == {RunsOf(ACTIVE_RUNS, key)[i].run_id : i \in 1..Len(RunsOf(ACTIVE_RUNS, key))}
C36Taken(t) ==
    IF task[t].pc \in {"ab_flags", "ab_notify", "ab_ret"}
    THEN {task[t].runs[i].run_id : i \in 1..Len(task[t].runs)} ELSE {}

\* a run that was registered and then unregistered: handed out, its register call over,
\* stored under no key, in no abort_runs call's snapshot, not flagged
C36Unregistered(r) ==
    /\ r \in C36RunIds
    /\ \A t \in Tasks : ~(task[t].pc = "reg_push" /\ task[t].run_id = r)
    /\ \A key \in Keys : r \notin C36Stored(key)
    /\ \A t \in Tasks : r \notin C36Taken(t)
    /\ ~is_cancelled(r)

\* C36, the steps: an abort_runs call takes the runs stored under its key at that time
\* and no others; a flag is set only by a call that took its run; a set flag stays set;
\* the flag of an unregistered run stays clear; an id becomes aborted under a key only by
\* a call on that key that took a run with that id, and stays aborted
C36Step ==
    /\ \A t \in Tasks :
          (task[t].pc = "idle" /\ task'[t].pc = "ab_flags") =>
              /\ task'[t].runs = RunsOf(ACTIVE_RUNS, task'[t].key)
              /\ \A key \in Keys \ {task'[t].key} :
                    RunsOf(ACTIVE_RUNS, key)' = RunsOf(ACTIVE_RUNS, key)
    /\ \A r \in DOMAIN cancelled :
          /\ is_cancelled(r) => is_cancelled(r)'
          /\ (~is_cancelled(r) /\ is_cancelled(r)') =>
                \E t \in Tasks : task[t].pc = "ab_flags" /\ r \in C36Taken(t)
          /\ C36Unregistered(r) => C36Unregistered(r)'
    /\ \A key \in Keys, m \in SourceIds :
          /\ is_aborted_source_message(key, m) => is_aborted_source_message(key, m)'
          /\ (~is_aborted_source_message(key, m) /\ is_aborted_source_message(key, m)') =>
                \E t \in Tasks :
                    /\ task[t].pc = "ab_flags"
                    /\ task[t].key = key
                    /\ \E i \in 1..Len(task[t].runs) : task[t].runs[i].source_message_id = m

\* C36: abort_runs on a key affects only the runs registered under that key at the moment
\* of the call: a run stored under a key (this one later, or another one) is never
\* flagged, nor is an unregistered run; a flag that is true never becomes false;
\* is_aborted_source_message(key, m) is true only if an abort_runs call on that key removed
\* a run with source id m, and then stays true
C36_AbortFrame ==
    /\ [](\A key \in Keys : \A r \in C36Stored(key) : ~is_cancelled(r))
    /\ [][C36Step]_vars

\* the run of k1 with source id u1 was aborted; the run of k2 with the same source id is
\* still registered, not flagged, and its id is not aborted under k2
C36_Witness ==
    /\ is_cancelled(FirstRunId)
    /\ is_aborted_source_message("k1", "u1")
    /\ C36Stored("k2") = {FirstRunId + 1}
    /\ ACTIVE_RUNS["k2"][1].source_message_id = "u1"
    /\ ~is_cancelled(FirstRunId + 1)
    /\ ~is_aborted_source_message("k2", "u1")
    /\ \A t \in Tasks : task[t].pc = "idle"

(***************************************************************************)
(* Properties of the web channel, checked under SpecStream and SpecWeb.    *)
(***************************************************************************)
C38Terminal == {"done", "error"}
C38AgentEvents == {"status", "delta", "tool_start", "tool_result"}

\* C38: the terminal event of a streaming run (done or error) is broadcast after every
\* status, delta, tool_start and tool_result event of the run, under every interleaving
\* of the run's task and its forward task
C38_TerminalLast ==
    \A i, j \in 1..Len(run_events) :
        (i < j /\ run_events[i].event \in C38Terminal) =>
            run_events[j].event \notin C38AgentEvents

(***************************************************************************)
(* The web channel's session lock (src/src/web.rs): the requests of        *)
(* POST /api/send and POST /api/send_stream, each taking the mutex of its   *)
(* normalized session key around its critical section.  The agent loop of  *)
(* a request is one step here; the mutex is tokio's, which hands the lock  *)
(* to its waiters in the order of their lock() calls.                      *)
(***************************************************************************)
WebRequests == {"w1", "w2"}

\* the requests a client task makes, one after the other
MaxWebRequests == 1

MainKey == <<"m", "a", "i", "n">>

\* body.session_key: absent, or a string
SessionKeys == {NoRet, Some(<<" ">>), Some(<<"a">>), Some(<<"a", " ">>)}

\* web.rs 107-114: unwrap_or("main"), trim, "main" for an empty key
normalize_session_key(session_key) ==
    LET key == trim(IF session_key = NoRet THEN MainKey ELSE session_key[1])
    IN  IF key = <<>> THEN MainKey ELSE key

\* Arc::new(tokio::sync::Mutex::new(())): free, nobody waiting
NewMutex == [holder |-> None, waiters |-> <<>>]

IdleWeb(n) == [pc |-> "idle", n |-> n, stream |-> FALSE, body |-> NoRet, session_key |-> <<>>]

\* api_send / api_send_stream up to web.rs 403 and 545: the request arrived and its
\* session key is normalized
WebRequest(r) ==
    /\ web[r].pc = "idle"
    /\ web[r].n < MaxWebRequests
    /\ \E stream \in BOOLEAN, body \in SessionKeys :
          web' = [web EXCEPT ![r] = [pc |-> "lock_for", n |-> web[r].n + 1, stream |-> stream,
                                     body |-> body,
                                     session_key |-> normalize_session_key(body)]]
    /\ UNCHANGED <<locks, rcvars, corevars, schedvars, guardvars, toolvars, fnvars>>

\* SessionHub::lock_for, web.rs 71-79: under the map's mutex, entry(key).or_insert_with,
\* and a clone of the Arc; api_send_stream then spawns the run's task
lock_for(r) ==
    /\ web[r].pc = "lock_for"
    /\ locks' = IF web[r].session_key \in DOMAIN locks THEN locks
                ELSE MapPut(locks, web[r].session_key, NewMutex)
    /\ web' = [web EXCEPT ![r].pc = "lock"]
    /\ UNCHANGED <<rcvars, corevars, schedvars, guardvars, toolvars, fnvars>>

\* lock.lock().await with a mutation: the lock is taken whoever holds it
SessionLock_NoWait(r) ==
    /\ web[r].pc = "lock"
    /\ locks' = [locks EXCEPT ![web[r].session_key].holder = r]
    /\ web' = [web EXCEPT ![r].pc = "upsert"]
    /\ UNCHANGED <<rcvars, corevars, schedvars, guardvars, toolvars, fnvars>>

\* lock.lock().await, web.rs 406 and 547: a free mutex is taken at once, otherwise the
\* task joins the mutex's queue
SessionLock(r) ==
    /\ web[r].pc = "lock"
    /\ LET mutex == locks[web[r].session_key]
       IN  IF mutex.holder = None
           THEN /\ locks' = [locks EXCEPT ![web[r].session_key].holder = r]
                /\ web' = [web EXCEPT ![r].pc = "upsert"]
           ELSE /\ locks' = [locks EXCEPT ![web[r].session_key].waiters = Append(@, r)]
                /\ web' = [web EXCEPT ![r].pc = "waiting"]
    /\ UNCHANGED <<rcvars, corevars, schedvars, guardvars, toolvars, fnvars>>

\* the waiting task was handed the lock and resumes
SessionLockGranted(r) ==
    /\ web[r].pc = "waiting"
    /\ locks[web[r].session_key].holder = r
    /\ web' = [web EXCEPT ![r].pc = "upsert"]
    /\ UNCHANGED <<locks, rcvars, corevars, schedvars, guardvars, toolvars, fnvars>>

\* session_key_to_chat_id: the chat of a session key, a hash of "web:{session_key}"
\* (taken as free of collisions)
session_key_to_chat_id(session_key) == <<"web:">> \o session_key

\* send_and_store_response_with_events, web.rs 560-576: upsert_chat, which may fail
WebUpsertChat(r) ==
    /\ web[r].pc = "upsert"
    /\ \E ok \in BOOLEAN :
          IF ok
          THEN /\ chats' = MapPut(chats, session_key_to_chat_id(web[r].session_key), "web")
               /\ web' = [web EXCEPT ![r].pc = "store"]
          ELSE /\ web' = [web EXCEPT ![r].pc = "end"]
               /\ UNCHANGED chats
    /\ UNCHANGED <<locks, chat_messages, telegram_sent, tool, rcvars, corevars, schedvars,
                   guardvars, fnvars>>

WebMessage(r, is_from_bot) ==
    [chat_id |-> session_key_to_chat_id(web[r].session_key), content |-> r,
     is_from_bot |-> is_from_bot]

\* web.rs 578-590: the user message is stored, which may fail
WebStoreUser(r) ==
    /\ web[r].pc = "store"
    /\ \E ok \in BOOLEAN :
          IF ok
          THEN /\ chat_messages' = Append(chat_messages, WebMessage(r, FALSE))
               /\ web' = [web EXCEPT ![r].pc = "agent"]
          ELSE /\ web' = [web EXCEPT ![r].pc = "end"]
               /\ UNCHANGED chat_messages
    /\ UNCHANGED <<locks, chats, telegram_sent, tool, rcvars, corevars, schedvars, guardvars,
                   fnvars>>

\* web.rs 592-615: process_with_agent / process_with_agent_with_events returns a
\* response or an error
WebAgent(r) ==
    /\ web[r].pc = "agent"
    /\ \E ok \in BOOLEAN : web' = [web EXCEPT ![r].pc = IF ok THEN "reply" ELSE "end"]
    /\ UNCHANGED <<locks, rcvars, corevars, schedvars, guardvars, toolvars, fnvars>>

\* web.rs 617-636: the bot message is stored, which may fail, and the call returns
WebStoreBot(r) ==
    /\ web[r].pc = "reply"
    /\ \E ok \in BOOLEAN :
          chat_messages' = IF ok THEN Append(chat_messages, WebMessage(r, TRUE))
                           ELSE chat_messages
    /\ web' = [web EXCEPT ![r].pc = "end"]
    /\ UNCHANGED <<locks, chats, telegram_sent, tool, rcvars, corevars, schedvars, guardvars,
                   fnvars>>

\* web.rs 549 and 488: send_and_store_response returns, or the run's task ends after its
\* terminal event and forward.await; the guard is dropped and the mutex goes to the first
\* waiter, if any
SessionUnlock(r) ==
    /\ web[r].pc = "end"
    /\ LET mutex == locks[web[r].session_key]
       IN  locks' = [locks EXCEPT ![web[r].session_key] =
                        IF mutex.waiters = <<>> THEN NewMutex
                        ELSE [holder |-> Head(mutex.waiters), waiters |-> Tail(mutex.waiters)]]
    /\ web' = [web EXCEPT ![r] = IdleWeb(web[r].n)]
    /\ UNCHANGED <<rcvars, corevars, schedvars, guardvars, toolvars, fnvars>>

\* the steps of a request that has arrived
WebTask(r) ==
    \/ lock_for(r)
    \/ SessionLock(r)
    \/ SessionLockGranted(r)
    \/ WebUpsertChat(r)
    \/ WebStoreUser(r)
    \/ WebAgent(r)
    \/ WebStoreBot(r)
    \/ SessionUnlock(r)

InitWeb ==
    /\ RegistryOff
    /\ CoreOff
    /\ SchedOff
    /\ GuardOff
    /\ FnOff
    /\ chats = << >>
    /\ chat_messages = <<>>
    /\ telegram_sent = <<>>
    /\ tool = [pc |-> "off"]
    /\ locks = << >>
    /\ web = [r \in WebRequests |-> IdleWeb(0)]

NextWeb == \E r \in WebRequests : WebRequest(r) \/ WebTask(r)

SpecWeb == InitWeb /\ [][NextWeb]_vars

\* SpecWeb where every task that has a step to take is scheduled and every call made
\* inside the critical section returns
SpecWebLive == SpecWeb /\ \A r \in WebRequests : WF_vars(WebTask(r))

\* the bodies whose session key is "main" once normalized; the others are the key "a"
C35Main == {NoRet, Some(<<" ">>)}
C35SameKey(r, q) == (web[r].body \in C35Main) <=> (web[q].body \in C35Main)

\* the request is in its critical section: from the lock taken to the guard dropped
C35Inside(r) == web[r].pc \in {"upsert", "store", "agent", "reply", "end"}

\* the request holds the mutex of its key
C35Holds(r) ==
    \/ C35Inside(r)
    \/ web[r].pc = "waiting" /\ locks[web[r].session_key].holder = r

C35Exclusive ==
    \A r, q \in WebRequests :
        (r # q /\ C35Inside(r) /\ C35Inside(q)) => ~C35SameKey(r, q)

C35OnlySameKeyBlocks ==
    \A r \in WebRequests :
        (web[r].pc = "waiting" /\ ~C35Holds(r)) =>
            \E q \in WebRequests \ {r} : C35SameKey(r, q) /\ C35Holds(q)

\* C35: two web requests, streaming or not, whose session keys are the same once
\* normalized are never in their critical section (user message stored, agent loop,
\* bot reply stored) at the same time; a request waits only for a request of the same
\* key; and every request that asked for the lock enters its critical section, given
\* that the holder's calls return
C35_SessionLock ==
    /\ [](C35Exclusive /\ C35OnlySameKeyBlocks)
    /\ \A r \in WebRequests : (web[r].pc \in {"lock", "waiting"}) ~> C35Inside(r)

\* a streaming request without a session key is in its agent loop, a non-streaming
\* request with the key " " waits for it, the user message of the first is stored
C35_Witness ==
    /\ web["w1"].pc = "agent"
    /\ web["w1"].stream
    /\ web["w1"].body = NoRet
    /\ web["w2"].pc = "waiting"
    /\ ~web["w2"].stream
    /\ web["w2"].body = Some(<<" ">>)
    /\ Len(chat_messages) = 1

=============================================================================
